---- MODULE Spec2Model ----
(***************************************************************************)
(* Shape, data-flow and state model of the hierarchical cross-modal        *)
(* encoder of CogniFuse (src/models/MultiChannelDeformer.py).              *)
(*                                                                         *)
(* In the encoder's specification a tensor is modelled by its shape and by  *)
(* where it came from (modality, depth level, producing stage).  Numeric    *)
(* content is followed in separate specifications of one front-end block,  *)
(* of the dense feature and of one cross-modal attention.  Modalities and  *)
(* levels are numbered from 1 (Python index i is i + 1 here).  A length of *)
(* -1 stands for "the operation raised".                                   *)
(***************************************************************************)
EXTENDS Integers, Sequences, FiniteSets, TLC

\* ------------------------------------------------------------------ bounds
MaxM == 3
MaxFolds == 3
MaxDepth == 2

\* Sample input domains.
\* A modality profile: time length, channel count, kernel count,
\* temporal kernel length, MLP width, embedding width.
Profiles ==
    { [num_time |-> 9, num_chan |-> 2, num_kernel |-> 2, temporal_kernel |-> 3, mlp_dim |-> 2, emb_dim |-> 3],
      [num_time |-> 4, num_chan |-> 1, num_kernel |-> 1, temporal_kernel |-> 1, mlp_dim |-> 2, emb_dim |-> 2],
      [num_time |-> 5, num_chan |-> 1, num_kernel |-> 1, temporal_kernel |-> 2, mlp_dim |-> 2, emb_dim |-> 2],
      [num_time |-> 4, num_chan |-> 0, num_kernel |-> 1, temporal_kernel |-> 3, mlp_dim |-> 2, emb_dim |-> 2],
      [num_time |-> 2, num_chan |-> 1, num_kernel |-> 2, temporal_kernel |-> 3, mlp_dim |-> 2, emb_dim |-> 1],
      [num_time |-> 1, num_chan |-> 1, num_kernel |-> 1, temporal_kernel |-> 1, mlp_dim |-> 2, emb_dim |-> 1] }

HeadConfigs == { <<1, 1>>, <<1, 2>>, <<2, 2>> }
BatchSizes == { 1, 7 }
OutDims == { 2 }

\* ----------------------------------------------------------------- helpers
Min(a, b) == IF a <= b THEN a ELSE b
Max(a, b) == IF a >= b THEN a ELSE b

RECURSIVE Pow2(_)
Pow2(n) == IF n <= 0 THEN 1 ELSE 2 * Pow2(n - 1)

RECURSIVE SumSeq(_)
SumSeq(s) == IF s = <<>> THEN 0 ELSE Head(s) + SumSeq(Tail(s))

\* int(d * 0.5) of a non-negative integer
Half(d) == d \div 2

RECURSIVE HalfTimes(_, _)
HalfTimes(d, n) == IF n <= 0 THEN d ELSE HalfTimes(Half(d), n - 1)

\* ------------------------------------------------------- shape of operators
\* Output length of a convolution of kernel k and zero padding p on each side
\* (stride 1); it raises when the padded input is shorter than the kernel.
ConvLen(L, k, p) == IF L + 2 * p - k + 1 >= 1 THEN L + 2 * p - k + 1 ELSE -1

\* Output length of MaxPool1d(kernel_size=2, stride=2); it raises on an empty
\* output.
PoolLen(L) == IF L \div 2 >= 1 THEN L \div 2 ELSE -1

\* int(0.5 * (kernel - 1))
get_padding(kernel) == (kernel - 1) \div 2

\* Variant: the dense extractor's convolution is not padded.
get_padding_1D_None(kernel) == 0

get_padding_1D(kernel) == (kernel - 1) \div 2

\* Elementwise a + b with broadcasting on the last axis: the result length, or
\* -1 when the lengths are incompatible.
BroadcastLen(a, b) ==
    IF a = b THEN a
    ELSE IF a = 1 THEN b
    ELSE IF b = 1 THEN a
    ELSE -1

VARIABLES
    cfg,              \* the construction arguments
    enc,              \* the constructed encoder: its layers and their sizes
    pc,               \* position of the program
    lvl,              \* current depth level of Transformer.forward (1-based)
    idx,              \* current modality of the running loop (1-based)
    batch,            \* batch size of the running forward evaluation
    training,         \* nn.Module.training during that evaluation
    channels,         \* the caller's list passed to MultiChannelDeformer.forward
    passed,           \* what that list held when forward was called
    channels_output,  \* Transformer.forward's list of per-modality tensors
    aliased,          \* channels_output is the caller's list object
    new_channels_output,
    depth_dense_feature,
    dense_feature,
    k_agg,            \* key pool of the last cross-modal fusion (its tokens)
    v_agg,            \* value pool of the last cross-modal fusion
    modality_specific_emb,
    emb,              \* the returned array
    err,              \* where the program raised, if it did
    weight,           \* stored weights of one filter of a constrained convolution
    running_mean,     \* running mean buffer of the batch normalisation after it
    calls,            \* the forward evaluations made so far on that block
    x_infos,          \* values of x_info of one modality, level after level
    info_out,         \* what forward did with the output computed from them
    attn_in,          \* query, keys and values given to one cross-modal fusion
    attn_out,         \* its outputs, one per ordering of the pool tried
    args_path_exists, \* the args.json beside the saved model exists
    args_json,        \* what that file holds
    argv,             \* the options given on the command line
    model_args,       \* parse_and_load_from_model: the loaded args.json
    parser,           \* the ArgumentParser: its groups and their options
    args,             \* the Namespace being returned
    args_to_overwrite,
    a_idx,            \* position of the overwrite loop in args_to_overwrite
    parse_pc,         \* position of parse_and_load_from_model
    parse_err,        \* the exception it raised, if it did
    cmd,              \* train_cross_validation: the options on its command line
    data_dir,         \* the entries of args.data_dir as os.listdir returns them
    folds,
    pass_through_args,
    f_idx,            \* position of the training loop in folds
    running,          \* the fold subprocesses that have started and not ended
    events,           \* what main has done so far, in order
    drv_pc,           \* position of main
    drv_err           \* the exception that ended main, if one did

encvars == << cfg, enc, pc, lvl, idx, batch, training, channels, passed,
              channels_output, aliased, new_channels_output, depth_dense_feature,
              dense_feature, k_agg, v_agg, modality_specific_emb, emb, err >>

blockvars == << weight, running_mean, calls >>

valvars == << x_infos, info_out, attn_in, attn_out >>

parservars == << args_path_exists, args_json, argv, model_args, parser, args,
                 args_to_overwrite, a_idx, parse_pc, parse_err >>

drivervars == << cmd, data_dir, folds, pass_through_args, f_idx, running,
                 events, drv_pc, drv_err >>

clivars == << parservars, drivervars >>

vars == << encvars, blockvars, valvars, clivars >>

NoErr == [phase |-> "none", at |-> "none"]
NoEnc == [built |-> FALSE]
NoEmb == [shape |-> <<>>]

\* ----------------------------------------------------------- configurations
ProfileSeqs == UNION { [1..m -> Profiles] : m \in 1..MaxM }

Field(ps, f) == [i \in 1..Len(ps) |-> ps[i][f]]

MakeCfg(ps, d, hc, od) ==
    [ num_time        |-> Field(ps, "num_time"),
      num_chan        |-> Field(ps, "num_chan"),
      num_kernel      |-> Field(ps, "num_kernel"),
      temporal_kernel |-> Field(ps, "temporal_kernel"),
      mlp_dim         |-> Field(ps, "mlp_dim"),
      emb_dim         |-> Field(ps, "emb_dim"),
      depth           |-> d,
      heads           |-> hc[1],
      dim_head        |-> hc[2],
      out_dim         |-> od ]

Configs ==
    { MakeCfg(ps, d, hc, od) :
        ps \in ProfileSeqs, d \in 1..MaxDepth, hc \in HeadConfigs, od \in OutDims }

M == Len(cfg.num_time)

InitEncoder(configs) ==
    /\ cfg \in configs
    /\ enc = NoEnc
    /\ pc = "config"
    /\ lvl = 0
    /\ idx = 0
    /\ batch = 0
    /\ training = TRUE
    /\ channels = <<>>
    /\ passed = <<>>
    /\ channels_output = <<>>
    /\ aliased = FALSE
    /\ new_channels_output = <<>>
    /\ depth_dense_feature = <<>>
    /\ dense_feature = <<>>
    /\ k_agg = <<>>
    /\ v_agg = <<>>
    /\ modality_specific_emb = <<>>
    /\ emb = NoEmb
    /\ err = NoErr

InitBlockIdle ==
    /\ weight = <<>>
    /\ running_mean = 0
    /\ calls = <<>>

InitParserIdle ==
    /\ args_path_exists = FALSE
    /\ args_json = <<>>
    /\ argv = <<>>
    /\ model_args = <<>>
    /\ parser = <<>>
    /\ args = <<>>
    /\ args_to_overwrite = <<>>
    /\ a_idx = 0
    /\ parse_pc = "idle"
    /\ parse_err = "none"

InitDriverIdle ==
    /\ cmd = <<>>
    /\ data_dir = <<>>
    /\ folds = <<>>
    /\ pass_through_args = <<>>
    /\ f_idx = 0
    /\ running = {}
    /\ events = <<>>
    /\ drv_pc = "idle"
    /\ drv_err = "none"

InitCliIdle == InitParserIdle /\ InitDriverIdle

InitValuesIdle ==
    /\ x_infos = <<>>
    /\ info_out = [state |-> "none"]
    /\ attn_in = <<>>
    /\ attn_out = <<>>

Init == InitEncoder(Configs) /\ InitBlockIdle /\ InitValuesIdle /\ InitCliIdle

\* ------------------------------------------------------------ construction
\* max_norm=2 of both constrained convolutions of the front end
max_norm == 2

\* Variant: the spatial convolution is built whatever the channel count.
HasSpatialConv_Always(num_chan) == TRUE

\* "Only do spatial convolution if there is more than one channel"
HasSpatialConv(num_chan) == num_chan > 1

\* MultiChannelDeformer.cnn_block: temporal convolution (1, k), spatial
\* convolution (num_chan, 1) or Identity, BatchNorm2d, ELU.
cnn_block(out_chan, temporal_kern, num_chan) ==
    [ out_chan |-> out_chan,
      kernel   |-> temporal_kern,
      pad      |-> get_padding(temporal_kern),
      num_chan |-> num_chan,
      spatial  |-> HasSpatialConv(num_chan),
      max_norm |-> max_norm ]

\* Learned parameters of one front-end block: weight and bias of each
\* convolution, weight and bias of the batch normalisation.
FrontEndParams(blk) ==
    (blk.out_chan * 1 * 1 * blk.kernel + blk.out_chan)
    + (IF blk.spatial
       THEN blk.out_chan * blk.out_chan * blk.num_chan * 1 + blk.out_chan
       ELSE 0)
    + 2 * blk.out_chan

\* zip() stops at the shortest argument.
ZipLen3(a, b, c) == Min(Len(a), Min(Len(b), Len(c)))
ZipLen2(a, b) == Min(Len(a), Len(b))

\* Variant: the dense features are left out of the compressor's input width.
get_modality_output_sizes_NoDense(dims, depth, in_chans) ==
    [ i \in 1..ZipLen2(dims, in_chans) |->
        (dims[i] \div Pow2(depth)) * in_chans[i] ]

\* Variant: the halved time length is rounded up instead of down.
get_modality_output_sizes_RoundedUp(dims, depth, in_chans) ==
    [ i \in 1..ZipLen2(dims, in_chans) |->
        ((dims[i] + Pow2(depth) - 1) \div Pow2(depth)) * in_chans[i]
            + in_chans[i] * depth ]

\* [int(dim * (0.5 ** depth)) * in_chan + in_chan * depth for ...]
get_modality_output_sizes(dims, depth, in_chans) ==
    [ i \in 1..ZipLen2(dims, in_chans) |->
        (dims[i] \div Pow2(depth)) * in_chans[i] + in_chans[i] * depth ]

\* Variant: the time dimension is not halved from level to level.
LevelDims_NoHalving(dims, l) == dims

\* dims after l executions of "dims = [int(d * 0.5) for d in dims]"
LevelDims(dims, l) == [ i \in 1..Len(dims) |-> HalfTimes(dims[i], l) ]

\* Parameters of nn.Linear(i, o), with and without bias.
LinearParams(i, o, bias) == i * o + (IF bias THEN o ELSE 0)

\* Variant: to_out is a learned projection whatever heads and dim_head are.
AttentionInit_AlwaysProjects(q_dim, heads, dim_head, create_heads, out_dim) ==
    LET inner_dim == dim_head * heads
        project_out == ~(heads = 1 /\ dim_head = q_dim)
        out == IF out_dim # <<>> THEN out_dim[1] ELSE q_dim
    IN  [ q_dim |-> q_dim, inner_dim |-> inner_dim, heads |-> heads,
          dim_head |-> dim_head, create_heads |-> create_heads,
          project_out |-> project_out,
          to_out |-> "Linear",
          out |-> out,
          params |-> (IF create_heads THEN 3 * LinearParams(q_dim, inner_dim, FALSE) ELSE 0)
                     + LinearParams(inner_dim, out, TRUE) ]

\* Attention.__init__; out_dim is <<>> for None and <<d>> for a given width.
AttentionInit(q_dim, heads, dim_head, create_heads, out_dim) ==
    LET inner_dim == dim_head * heads
        project_out == ~(heads = 1 /\ dim_head = q_dim)
        linear == out_dim # <<>> \/ project_out
        out == IF out_dim # <<>> THEN out_dim[1]
               ELSE IF project_out THEN q_dim ELSE inner_dim
    IN  [ q_dim |-> q_dim, inner_dim |-> inner_dim, heads |-> heads,
          dim_head |-> dim_head, create_heads |-> create_heads,
          project_out |-> project_out,
          to_out |-> IF linear THEN "Linear" ELSE "Identity",
          out |-> out,
          params |-> (IF create_heads THEN 3 * LinearParams(q_dim, inner_dim, FALSE) ELSE 0)
                     + (IF linear THEN LinearParams(inner_dim, out, TRUE) ELSE 0) ]

\* Variant: the projections keep the modality's own token dimension.
LevelBlock_InnerFromDim(dim, mlp_dim, fine_grained_kernel, in_chan, heads, dim_head, mlp_dims) ==
    [ dim         |-> dim,
      mlp_dim     |-> mlp_dim,
      in_chan     |-> in_chan,
      kernel      |-> fine_grained_kernel,
      pad         |-> get_padding_1D(fine_grained_kernel),
      inner_dim   |-> dim,
      heads       |-> heads,
      dim_head    |-> dim_head,
      project_out |-> ~(heads = 1 /\ dim_head = dim),
      attn        |-> AttentionInit(dim, heads, dim_head, TRUE, <<>>),
      sa          |-> AttentionInit(dim, heads, dim_head, FALSE, <<dim>>),
      cross_out   |-> dim,
      cross_hidden |-> SumSeq(mlp_dims) ]

\* Variant: the cross-attention layer is built without out_dim and returns
\* tokens of the inner dimension.
LevelBlock_CrossKeepsInner(dim, mlp_dim, fine_grained_kernel, in_chan, heads, dim_head, mlp_dims) ==
    [ dim         |-> dim,
      mlp_dim     |-> mlp_dim,
      in_chan     |-> in_chan,
      kernel      |-> fine_grained_kernel,
      pad         |-> get_padding_1D(fine_grained_kernel),
      inner_dim   |-> dim_head * heads,
      heads       |-> heads,
      dim_head    |-> dim_head,
      project_out |-> ~(heads = 1 /\ dim_head = dim),
      attn        |-> AttentionInit(dim, heads, dim_head, TRUE, <<>>),
      sa          |-> AttentionInit(dim_head * heads, heads, dim_head, FALSE,
                                    <<dim_head * heads>>),
      cross_out   |-> dim_head * heads,
      cross_hidden |-> SumSeq(mlp_dims) ]

\* One HCT block with its projections and its cross-attention layer.
LevelBlock(dim, mlp_dim, fine_grained_kernel, in_chan, heads, dim_head, mlp_dims) ==
    [ dim         |-> dim,
      mlp_dim     |-> mlp_dim,
      in_chan     |-> in_chan,
      kernel      |-> fine_grained_kernel,
      pad         |-> get_padding_1D(fine_grained_kernel),
      inner_dim   |-> dim_head * heads,
      heads       |-> heads,
      dim_head    |-> dim_head,
      project_out |-> ~(heads = 1 /\ dim_head = dim),
      attn        |-> AttentionInit(dim, heads, dim_head, TRUE, <<>>),
      sa          |-> AttentionInit(dim_head * heads, heads, dim_head, FALSE, <<dim>>),
      cross_out   |-> dim,
      cross_hidden |-> SumSeq(mlp_dims) ]

\* Transformer.__init__ indexes mlp_dims, fine_grained_kernels and in_chans
\* with every k in range(len(dims)).
TransformerInitRaises(c) ==
    /\ c.depth >= 1
    /\ \/ Len(c.mlp_dim) < Len(c.num_time)
       \/ Len(c.temporal_kernel) < Len(c.num_time)
       \/ Len(c.num_kernel) < Len(c.num_time)

TransformerInit(c) ==
    [ modality_compression_layers |->
        LET sizes == get_modality_output_sizes(c.num_time, c.depth, c.num_kernel)
        IN  [ i \in 1..ZipLen2(sizes, c.emb_dim) |->
                [dim |-> sizes[i], out |-> c.emb_dim[i]] ],
      output_ffwd |-> [dim |-> SumSeq(c.emb_dim), out |-> c.out_dim],
      layers |->
        [ l \in 1..c.depth |->
            [ k \in 1..Len(c.num_time) |->
                LevelBlock(LevelDims(c.num_time, l)[k], c.mlp_dim[k],
                           c.temporal_kernel[k], c.num_kernel[k],
                           c.heads, c.dim_head, c.mlp_dim) ] ] ]

\* MultiChannelDeformer.__init__
BuildEncoder(c) ==
    [ built |-> TRUE,
      cnn_encoders |->
        [ i \in 1..ZipLen3(c.num_chan, c.num_kernel, c.temporal_kernel) |->
            cnn_block(c.num_kernel[i], c.temporal_kernel[i], c.num_chan[i]) ],
      pos_embeddings |->
        [ i \in 1..ZipLen2(c.num_time, c.num_kernel) |->
            <<1, c.num_kernel[i], c.num_time[i]>> ],
      transformer |-> TransformerInit(c) ]

Construct ==
    /\ pc = "config"
    /\ UNCHANGED << blockvars, valvars, clivars >>
    /\ IF TransformerInitRaises(cfg)
       THEN /\ pc' = "failed"
            /\ err' = [phase |-> "construct", at |-> "Transformer.__init__"]
            /\ enc' = enc
       ELSE /\ pc' = "ready"
            /\ err' = err
            /\ enc' = BuildEncoder(cfg)
    /\ UNCHANGED << cfg, lvl, idx, batch, training, channels, passed, channels_output,
                    aliased, new_channels_output, depth_dense_feature,
                    dense_feature, k_agg, v_agg, modality_specific_emb, emb >>

\* ----------------------------------------------------------------- forward
\* A list element: a tensor (or, for kind "tuple", the tuple (x, x_q, x_k,
\* x_v)) with the shape of x, the shape of the three projections, the
\* modality and level it belongs to and the operations that produced it.
Item(kind, shape, mod, level, qkv, via) ==
    [kind |-> kind, shape |-> shape, mod |-> mod, level |-> level,
     qkv |-> qkv, via |-> via]

Raised(at) == [at |-> at]

\* BatchNorm in training mode needs more than one value per channel.
BatchNormRaises(train, count) == train /\ count <= 1

\* MultiChannelDeformer.forward, one iteration of its loop on a tensor of
\* shape (b, C, T): unsqueeze, cnn_encoders[i], to_patch_embedding,
\* chan += pos_embeddings[i] (in place: the sum must have chan's shape).
FrontEnd(blk, pos, chan, train) ==
    LET b  == chan.shape[1]
        h1 == ConvLen(chan.shape[2], 1, 0)
        w1 == ConvLen(chan.shape[3], blk.kernel, blk.pad)
        h2 == IF h1 = -1 THEN -1
              ELSE IF blk.spatial THEN ConvLen(h1, blk.num_chan, 0)
              ELSE h1
        f  == h2 * w1
    IN  IF chan.kind # "raw" THEN Raised("unsqueeze")
        ELSE IF h1 = -1 \/ w1 = -1 THEN Raised("temporal_conv")
        ELSE IF h2 = -1 THEN Raised("spatial_conv")
        ELSE IF BatchNormRaises(train, b * f) THEN Raised("batch_norm")
        ELSE IF ~(pos[3] = f \/ pos[3] = 1) \/ pos[2] # blk.out_chan
             THEN Raised("pos_embedding")
        ELSE [ at |-> "ok",
               item |-> Item("enc", <<b, blk.out_chan, f>>, chan.mod, 0, <<>>,
                             <<"temporal_conv">>
                             \o (IF blk.spatial THEN <<"spatial_conv">> ELSE <<>>)
                             \o <<"batch_norm", "elu", "pos_embedding">>) ]

\* Transformer.forward, one HCT block (lines 181-194) on x of shape (b, n, L).
\* The data flow of one iteration of the level loop: a term is an operation
\* applied to terms, and the leaf is the tensor x read from channels_output[i]
\* (the front end's output at the first level, a cross-modal fusion's after).
Op(op, of) == [op |-> op, of |-> of]

\* Variant: the fine branch reads the pooled sequence.
FineBranchInput_Pooled(x, x_pool) == x_pool

\* x_fg = cnn(x)
FineBranchInput(x, x_pool) == x

\* x_cg = pool(x); x_cg = attn(x_cg, x_cg, x_cg) + x_cg; x_fg = cnn(x);
\* x_info = get_info(x_fg); x = ff(x_cg) + x_fg
LevelFusion(src) ==
    LET x      == Op(src, <<>>)
        x_pool == Op("pool", <<x>>)
        x_cg   == Op("add", <<Op("attn", <<x_pool, x_pool, x_pool>>), x_pool>>)
        x_fg   == Op("cnn", <<FineBranchInput(x, x_pool)>>)
        x_info == Op("get_info", <<x_fg>>)
        out    == Op("add", <<Op("ff", <<x_cg>>), x_fg>>)
    IN  [x |-> out, x_info |-> x_info,
         x_q |-> Op("q_layer", <<out>>), x_k |-> Op("k_layer", <<out>>),
         x_v |-> Op("v_layer", <<out>>)]

HCT(blk, x, level, train) ==
    LET b   == x.shape[1]
        n   == x.shape[2]
        cg  == PoolLen(x.shape[3])
        fgc == ConvLen(x.shape[3], blk.kernel, blk.pad)
        fg  == IF fgc = -1 THEN -1 ELSE PoolLen(fgc)
        sum == BroadcastLen(blk.dim, fg)
    IN  IF x.kind \notin {"enc", "x"} THEN Raised("pool")
        ELSE IF cg = -1 THEN Raised("pool")
        ELSE IF cg # blk.dim THEN Raised("attn")
        ELSE IF n # blk.in_chan \/ fgc = -1 THEN Raised("cnn")
        ELSE IF BatchNormRaises(train, b * fgc) THEN Raised("cnn_batch_norm")
        ELSE IF fg = -1 THEN Raised("cnn_pool")
        ELSE IF sum = -1 THEN Raised("ff_plus_fg")
        ELSE IF sum # blk.dim THEN Raised("q_layer")
        ELSE [ at |-> "ok",
               info |-> [shape |-> <<b, n>>, mod |-> x.mod, level |-> level],
               item |-> Item("tuple", <<b, n, sum>>, x.mod, level,
                             <<b, n, blk.inner_dim>>,
                             LevelFusion(x.kind)) ]

\* Variant: the modality's own tuple stays in the list.
OtherChannels_WithSelf(co, i) == co

\* [h for n, h in enumerate(channels_output) if n != i]
OtherChannels(co, i) ==
    LET F[n \in 0..Len(co)] ==
            IF n = 0 THEN <<>>
            ELSE IF n # i THEN Append(F[n - 1], co[n])
            ELSE F[n - 1]
    IN  F[Len(co)]

\* The tokens of one projection (part "k" or "v") of a tuple.
Tokens(h, part) ==
    [ t \in 1..h.qkv[2] |->
        [mod |-> h.mod, tok |-> t, level |-> h.level, from |-> h.kind, part |-> part] ]

\* torch.cat([k for _, _, k, _ in other_channels_output], dim=-2)
RECURSIVE CatTokens(_, _)
CatTokens(others, part) ==
    IF others = <<>> THEN <<>>
    ELSE Tokens(Head(others), part) \o CatTokens(Tail(others), part)

k_other_channels(others) == CatTokens(others, "k")

\* Variant: the values are gathered from the last other modality to the first.
v_other_channels_Reversed(others) ==
    CatTokens([ j \in 1..Len(others) |-> others[Len(others) + 1 - j] ], "v")

v_other_channels(others) == CatTokens(others, "v")

\* CrossChannelTransformerEncoderLayer.forward on the tuple of modality i.
\* torch.cat along the token axis needs equal sizes on the other axes; the
\* matrix products of the attention broadcast the batch axis, and so does
\* x + sa(...).
CrossAttn(blk, h, others) ==
    LET n   == h.shape[2]
        sa  == blk.cross_out
        sum == BroadcastLen(h.shape[3], sa)
        bsa == BroadcastLen(h.qkv[1], others[1].qkv[1])
        b   == BroadcastLen(h.shape[1], bsa)
    IN  IF h.kind # "tuple"
           \/ \E j \in 1..Len(others) : others[j].kind # "tuple"
        THEN Raised("unpack")
        ELSE IF others = <<>> THEN Raised("cat")
        ELSE IF \E j \in 1..Len(others) :
                    \/ others[j].qkv[1] # others[1].qkv[1]
                    \/ others[j].qkv[3] # others[1].qkv[3]
             THEN Raised("cat")
        ELSE IF bsa = -1 \/ h.qkv[3] # others[1].qkv[3] THEN Raised("sa")
        ELSE IF sum = -1 \/ b = -1 THEN Raised("x_plus_sa")
        ELSE IF sum # blk.cross_out THEN Raised("ffwd")
        ELSE [ at |-> "ok",
               k_agg |-> k_other_channels(others),
               v_agg |-> v_other_channels(others),
               item |-> Item("x", <<b, n, blk.cross_out>>, h.mod, h.level, <<>>,
                             <<"cat_k", "cat_v", "sa", "residual", "ffwd">>) ]

\* Variant: the result also overwrites channels_output[i] during the loop.
StoreCross_InPlace(co, nco, i, x) ==
    [co |-> [co EXCEPT ![i] = x], nco |-> Append(nco, x)]

\* Where the result of cross-modal fusion for modality i is stored.
StoreCross(co, nco, i, x) == [co |-> co, nco |-> Append(nco, x)]

\* Variant: the dense features of the first modality are taken for every i.
ModalityLevels_FirstModality(df, i) == [ l \in 1..Len(df) |-> df[l][1] ]

\* modality_levels = [depth[i] for depth in dense_feature]
ModalityLevels(df, i) == [ l \in 1..Len(df) |-> df[l][i] ]

\* Modality compressor of modality i (lines 212-219).
Compress(layers, chan_out, df, i) ==
    LET b      == chan_out.shape[1]
        levels == ModalityLevels(df, i)
        flat   == chan_out.shape[2] * chan_out.shape[3]
        width  == flat + SumSeq([l \in 1..Len(levels) |-> levels[l].shape[2]])
    IN  IF levels = <<>> THEN Raised("cat")
        ELSE IF \E l \in 1..Len(levels) : levels[l].shape[1] # b THEN Raised("cat")
        ELSE IF i > Len(layers) THEN Raised("modality_compression_layers")
        ELSE IF width # layers[i].dim THEN Raised("modality_compression_layers")
        ELSE [ at |-> "ok",
               item |-> [ shape |-> <<b, layers[i].out>>, mod |-> i,
                          levels |-> levels, width |-> width ] ]

\* Variant: the embeddings are concatenated last modality first.
CatEmbeddings_Reversed(embs) == [ i \in 1..Len(embs) |-> embs[Len(embs) + 1 - i] ]

\* torch.cat(modality_specific_emb, dim=-1): the parts of the concatenation,
\* in its order.
CatEmbeddings(embs) == embs

\* Output head (lines 221-222).
OutputHead(ffwd, embs) ==
    LET parts == CatEmbeddings(embs)
        width == SumSeq([i \in 1..Len(parts) |-> parts[i].shape[2]])
    IN  IF embs = <<>> THEN Raised("cat")
        ELSE IF \E i \in 1..Len(embs) : embs[i].shape[1] # embs[1].shape[1]
             THEN Raised("cat")
        ELSE IF width # ffwd.dim THEN Raised("output_ffwd")
        ELSE [ at |-> "ok",
               emb |-> [ shape |-> <<embs[1].shape[1], ffwd.out>>,
                         order |-> [i \in 1..Len(parts) |-> parts[i].mod],
                         widths |-> [i \in 1..Len(parts) |-> parts[i].shape[2]] ] ]

\* --------------------------------------------------------------- the steps
Fail(at) ==
    /\ pc' = "failed"
    /\ err' = [phase |-> "forward", at |-> at]

\* The caller builds the list of M raw arrays, each (batch, C_i, T_i), and
\* calls forward.
\* The channel count of the array the caller passes for modality i: the
\* configured one, and a single channel where num_chan has no entry for i.
ChannelsOf(i) == IF i <= Len(cfg.num_chan) THEN cfg.num_chan[i] ELSE 1

Call ==
    /\ pc = "ready"
    /\ UNCHANGED << blockvars, valvars, clivars >>
    /\ \E b \in BatchSizes, t \in BOOLEAN :
         /\ batch' = b
         /\ training' = t
         /\ channels' = [ i \in 1..M |->
                Item("raw", <<b, ChannelsOf(i), cfg.num_time[i]>>, i, 0, <<>>, <<>>) ]
    /\ passed' = channels'
    /\ pc' = "frontend"
    /\ idx' = 1
    /\ UNCHANGED << cfg, enc, lvl, channels_output, aliased, new_channels_output,
                    depth_dense_feature, dense_feature, k_agg, v_agg,
                    modality_specific_emb, emb, err >>

\* Variant: the level loop ends after its first iteration.
AfterLevel_SingleLevel(l) ==
    IF l < 1 THEN "hct" ELSE "compress"

\* Position after the front-end loop or after a level: the next level's HCT
\* loop, or the compression loop when no level is left.
AfterLevel(l) ==
    IF l < Len(enc.transformer.layers) THEN "hct" ELSE "compress"

\* MultiChannelDeformer.forward: one iteration of "for i, chan in
\* enumerate(channels)"; after the last one Transformer.forward receives the
\* same list object.
FrontEndStep ==
    /\ pc = "frontend"
    /\ UNCHANGED << blockvars, valvars, clivars >>
    /\ LET r == IF idx > Len(enc.cnn_encoders) \/ idx > Len(enc.pos_embeddings)
                THEN Raised("cnn_encoders")
                ELSE FrontEnd(enc.cnn_encoders[idx], enc.pos_embeddings[idx],
                              channels[idx], training)
       IN  IF r.at # "ok"
           THEN /\ Fail(r.at)
                /\ UNCHANGED << channels, channels_output, aliased, idx, lvl,
                                dense_feature >>
           ELSE /\ channels' = [channels EXCEPT ![idx] = r.item]
                /\ err' = err
                /\ IF idx < Len(channels)
                   THEN /\ idx' = idx + 1
                        /\ pc' = pc
                        /\ UNCHANGED << channels_output, aliased, lvl, dense_feature >>
                   ELSE /\ channels_output' = channels'
                        /\ aliased' = TRUE
                        /\ dense_feature' = <<>>
                        /\ lvl' = 1
                        /\ idx' = 1
                        /\ pc' = AfterLevel(0)
    /\ UNCHANGED << cfg, enc, batch, training, passed, new_channels_output,
                    depth_dense_feature, k_agg, v_agg, modality_specific_emb, emb >>

\* Transformer.forward: one iteration of the HCT loop of level lvl.
HCTStep ==
    /\ pc = "hct"
    /\ UNCHANGED << blockvars, valvars, clivars >>
    /\ LET blocks == enc.transformer.layers[lvl]
           ddf    == IF idx = 1 THEN <<>> ELSE depth_dense_feature
           r      == IF idx > Len(channels_output) THEN Raised("channels_output")
                     ELSE HCT(blocks[idx], channels_output[idx], lvl, training)
       IN  IF r.at # "ok"
           THEN /\ Fail(r.at)
                /\ UNCHANGED << channels, channels_output, idx,
                                depth_dense_feature, dense_feature >>
           ELSE /\ channels_output' = [channels_output EXCEPT ![idx] = r.item]
                /\ channels' = IF aliased THEN channels_output' ELSE channels
                /\ depth_dense_feature' = Append(ddf, r.info)
                /\ err' = err
                /\ IF idx < Len(blocks)
                   THEN /\ idx' = idx + 1
                        /\ pc' = pc
                        /\ dense_feature' = dense_feature
                   ELSE /\ dense_feature' = Append(dense_feature, depth_dense_feature')
                        /\ idx' = 1
                        /\ pc' = "cross"
    /\ UNCHANGED << cfg, enc, lvl, batch, training, passed, aliased,
                    new_channels_output, k_agg, v_agg, modality_specific_emb, emb >>

\* Transformer.forward: one iteration of the cross-attention loop of level
\* lvl; after the last one channels_output is rebound to the new list.
CrossStep ==
    /\ pc = "cross"
    /\ UNCHANGED << blockvars, valvars, clivars >>
    /\ LET blocks == enc.transformer.layers[lvl]
           nco    == IF idx = 1 THEN <<>> ELSE new_channels_output
           r      == IF idx > Len(channels_output) THEN Raised("channels_output")
                     ELSE CrossAttn(blocks[idx], channels_output[idx],
                                    OtherChannels(channels_output, idx))
       IN  IF r.at # "ok"
           THEN /\ Fail(r.at)
                /\ UNCHANGED << channels, channels_output, aliased,
                                new_channels_output, k_agg, v_agg, idx, lvl >>
           ELSE LET st == StoreCross(channels_output, nco, idx, r.item)
                IN  /\ k_agg' = r.k_agg
                    /\ v_agg' = r.v_agg
                    /\ new_channels_output' = st.nco
                    /\ err' = err
                    /\ IF idx < Len(blocks)
                       THEN /\ channels_output' = st.co
                            /\ channels' = IF aliased THEN st.co ELSE channels
                            /\ aliased' = aliased
                            /\ idx' = idx + 1
                            /\ lvl' = lvl
                            /\ pc' = pc
                       ELSE /\ channels_output' = st.nco
                            /\ channels' = IF aliased THEN st.co ELSE channels
                            /\ aliased' = FALSE
                            /\ idx' = 1
                            /\ lvl' = IF lvl < Len(enc.transformer.layers)
                                      THEN lvl + 1 ELSE lvl
                            /\ pc' = AfterLevel(lvl)
    /\ UNCHANGED << cfg, enc, batch, training, passed, depth_dense_feature,
                    dense_feature, modality_specific_emb, emb >>

\* Transformer.forward: one iteration of the modality-compression loop.
CompressStep ==
    /\ pc = "compress"
    /\ UNCHANGED << blockvars, valvars, clivars >>
    /\ LET r == Compress(enc.transformer.modality_compression_layers,
                         channels_output[idx], dense_feature, idx)
       IN  IF r.at # "ok"
           THEN /\ Fail(r.at)
                /\ UNCHANGED << modality_specific_emb, idx >>
           ELSE /\ modality_specific_emb' = Append(modality_specific_emb, r.item)
                /\ err' = err
                /\ IF idx < Len(channels_output)
                   THEN idx' = idx + 1 /\ pc' = pc
                   ELSE idx' = 1 /\ pc' = "head"
    /\ UNCHANGED << cfg, enc, lvl, batch, training, channels, passed,
                    channels_output, aliased, new_channels_output,
                    depth_dense_feature, dense_feature, k_agg, v_agg, emb >>

\* Transformer.forward: concatenation of the embeddings and output_ffwd;
\* forward returns.
HeadStep ==
    /\ pc = "head"
    /\ UNCHANGED << blockvars, valvars, clivars >>
    /\ LET r == OutputHead(enc.transformer.output_ffwd, modality_specific_emb)
       IN  IF r.at # "ok"
           THEN Fail(r.at) /\ emb' = emb
           ELSE pc' = "done" /\ err' = err /\ emb' = r.emb
    /\ UNCHANGED << cfg, enc, lvl, idx, batch, training, channels, passed,
                    channels_output, aliased, new_channels_output,
                    depth_dense_feature, dense_feature, k_agg, v_agg,
                    modality_specific_emb >>

Next ==
    \/ Construct
    \/ Call
    \/ FrontEndStep
    \/ HCTStep
    \/ CrossStep
    \/ CompressStep
    \/ HeadStep

Spec == Init /\ [][Next]_vars

\* The interpreter runs a called forward to its return or its exception:
\* a step that is possible is eventually taken.
LiveConfigs == { c \in Configs : c.heads = 2 /\ c.dim_head = 2 }

InitLive == InitEncoder(LiveConfigs) /\ InitBlockIdle /\ InitValuesIdle /\ InitCliIdle

SpecLive == InitLive /\ [][Next]_vars /\ WF_vars(Next)

\* ---------------------------------------- lists of unequal lengths
\* Construction arguments whose per-modality lists need not have one length:
\* a configuration on which forward returns, with one of its lists cut by
\* its last entry, or extended by a copy of it.
Resize(list, n) ==
    IF n <= Len(list) THEN SubSeq(list, 1, n) ELSE Append(list, list[Len(list)])

ListNames == { "num_time", "num_chan", "num_kernel", "temporal_kernel",
               "mlp_dim", "emb_dim" }

BaseListConfigs ==
    { c \in Configs :
        /\ Len(c.num_time) = 2 /\ c.depth = 1 /\ c.heads = 1 /\ c.dim_head = 2
        /\ \A i \in 1..2 : /\ c.num_chan[i] >= 1
                            /\ c.temporal_kernel[i] % 2 = 1
                            /\ c.num_time[i] >= 2 }

ListConfigs ==
    { [ c EXCEPT ![f] = Resize(c[f], n) ] :
        c \in BaseListConfigs, f \in ListNames, n \in 1..3 }

InitLists == InitEncoder(ListConfigs) /\ InitBlockIdle /\ InitValuesIdle /\ InitCliIdle

SpecLists == InitLists /\ [][Next]_vars

\* ------------------------------------------------- deep configurations
\* The default depth of the command line, and modalities long enough for it.
DefaultDepth == 4

DeepProfiles ==
    { [num_time |-> 16, num_chan |-> 1, num_kernel |-> 1, temporal_kernel |-> 1, mlp_dim |-> 2, emb_dim |-> 2],
      [num_time |-> 20, num_chan |-> 1, num_kernel |-> 1, temporal_kernel |-> 3, mlp_dim |-> 2, emb_dim |-> 2],
      [num_time |-> 33, num_chan |-> 2, num_kernel |-> 2, temporal_kernel |-> 3, mlp_dim |-> 2, emb_dim |-> 3] }

DepthConfigs ==
    { MakeCfg(ps, d, <<1, 2>>, 2) :
        ps \in [1..2 -> DeepProfiles], d \in { DefaultDepth, DefaultDepth \div 2 } }

InitDepth == InitEncoder(DepthConfigs) /\ InitBlockIdle /\ InitValuesIdle /\ InitCliIdle

SpecDepth == InitDepth /\ [][Next]_vars

\* ------------------------------------------- forward on arbitrary arrays
\* forward takes whatever list of arrays it is given.  Sample arrays for
\* modality i: any sample batch size, the configured channel count or one
\* more, the configured time length, one more, or half of it.
InputShapes(i) ==
    { <<b, C, T>> :
        b \in BatchSizes,
        C \in { cfg.num_chan[i], cfg.num_chan[i] + 1 },
        T \in { t \in { cfg.num_time[i], cfg.num_time[i] + 1, cfg.num_time[i] \div 2 } :
                  t >= 1 } }

CallWith ==
    /\ pc = "ready"
    /\ UNCHANGED << blockvars, valvars, clivars >>
    /\ \E t \in BOOLEAN, shapes \in [1..M -> UNION { InputShapes(i) : i \in 1..M }] :
         /\ \A i \in 1..M : shapes[i] \in InputShapes(i)
         /\ batch' = shapes[1][1]
         /\ training' = t
         /\ channels' = [ i \in 1..M |-> Item("raw", shapes[i], i, 0, <<>>, <<>>) ]
    /\ passed' = channels'
    /\ pc' = "frontend"
    /\ idx' = 1
    /\ UNCHANGED << cfg, enc, lvl, channels_output, aliased, new_channels_output,
                    depth_dense_feature, dense_feature, k_agg, v_agg,
                    modality_specific_emb, emb, err >>

\* Two-modality configurations with one head.
InputConfigs ==
    { c \in Configs : Len(c.num_time) = 2 /\ c.heads = 1 /\ c.dim_head = 2 }

InitInputs == InitEncoder(InputConfigs) /\ InitBlockIdle /\ InitValuesIdle /\ InitCliIdle

NextInputs ==
    \/ Construct
    \/ CallWith
    \/ FrontEndStep
    \/ HCTStep
    \/ CrossStep
    \/ CompressStep
    \/ HeadStep

SpecInputs == InitInputs /\ [][NextInputs]_vars

\* ================================================= one front-end block
\* The state a front-end block (cnn_block: Conv2dWithConstraint followed by
\* BatchNorm2d) carries from one forward evaluation to the next, followed
\* numerically: the weights of one output filter and the running mean of
\* one batch-normalised feature.
\*
\* Weights are binary floating-point numbers with SigBits significant bits,
\* rounded to nearest, ties to even, after every operation, as float32 is
\* with 24.  A number is held as the integer value * 2^FracBits.
SigBits == 3
FracBits == 4
MaxCalls == 3
MaxWeightHalves == 6

Scale == Pow2(FracBits)

Abs(x) == IF x < 0 THEN -x ELSE x

RECURSIVE BitLen(_)
BitLen(n) == IF n <= 0 THEN 0 ELSE 1 + BitLen(n \div 2)

\* Spacing of the floating-point numbers around the held value q.
Quantum(q) == Pow2(Max(BitLen(q) - SigBits, 0))

\* The floating-point number nearest to a / b (held values, a >= 0, b > 0).
RoundRat(a, b) ==
    LET U == Quantum(a \div b)
        n == a \div (b * U)
        r == a - n * b * U
    IN  IF 2 * r > b * U \/ (2 * r = b * U /\ n % 2 = 1)
        THEN (n + 1) * U
        ELSE n * U

FMul(x, y) ==
    (IF (x < 0) # (y < 0) THEN -1 ELSE 1) * RoundRat(Abs(x) * Abs(y), Scale)

\* x, y >= 0
FAdd(x, y) == RoundRat(x + y, 1)

\* x >= 0, y > 0
FDiv(x, y) == RoundRat(x * Scale, y)

RECURSIVE SqrtSearch(_, _, _)
SqrtSearch(X, lo, hi) ==
    IF lo >= hi THEN lo
    ELSE LET mid == (lo + hi + 1) \div 2
         IN  IF mid * mid <= X THEN SqrtSearch(X, mid, hi)
             ELSE SqrtSearch(X, lo, mid - 1)

\* The floating-point number nearest to the square root of x >= 0.
FSqrt(x) ==
    LET X  == x * Scale
        R  == SqrtSearch(X, 0, X)
        U  == Quantum(R)
        n  == R \div U
        m  == (2 * n * U + U) * (2 * n * U + U)
    IN  IF 4 * X > m \/ (4 * X = m /\ n % 2 = 1)
        THEN (n + 1) * U
        ELSE n * U

\* The p=2 norm of a filter as renorm computes it.
RECURSIVE SumSquares(_)
SumSquares(w) ==
    IF w = <<>> THEN 0
    ELSE FAdd(SumSquares(SubSeq(w, 1, Len(w) - 1)), FMul(w[Len(w)], w[Len(w)]))

VectorNorm(w) == FSqrt(SumSquares(w))

\* The 1e-7 renorm adds to the norm before dividing: 0.42 of the spacing of
\* float32 just above max_norm = 2; here 3/8 of that spacing.
RenormEps == 3 * Pow2(FracBits - 1 - SigBits)

\* (norm > maxnorm) ? maxnorm / (norm + 1e-7) : 1.0
RenormFactor(norm, maxnorm) ==
    IF norm > maxnorm * Scale
    THEN FDiv(maxnorm * Scale, FAdd(norm, RenormEps))
    ELSE Scale

\* torch.renorm(weight, p=2, dim=0, maxnorm) on one output filter.
Renorm(w, maxnorm) ==
    LET factor == RenormFactor(VectorNorm(w), maxnorm)
    IN  [ j \in 1..Len(w) |-> FMul(w[j], factor) ]

\* Conv2dWithConstraint.forward: the stored weights are replaced, then used.
ConstrainedWeights(w, doWeightNorm) ==
    IF doWeightNorm THEN Renorm(w, max_norm) ELSE w

\* Batches of one feature, and their means.
InputBatches == { <<0, 2>>, <<1, 5>>, <<4, 4>> }
BatchMean(x) == SumSeq(x) \div Len(x)

\* The running mean is held as value * 10^MaxCalls.
RECURSIVE Pow10(_)
Pow10(n) == IF n <= 0 THEN 1 ELSE 10 * Pow10(n - 1)
MeanScale == Pow10(MaxCalls)

\* Variant: the running mean is updated in evaluation mode too.
BatchNormUpdate_AlsoInEval(rm, x, train) ==
    (9 * rm + BatchMean(x) * MeanScale) \div 10

\* BatchNorm, momentum 0.1: in training mode
\* running_mean = 0.9 * running_mean + 0.1 * batch mean.
BatchNormUpdate(rm, x, train) ==
    IF train THEN (9 * rm + BatchMean(x) * MeanScale) \div 10 ELSE rm

\* The mean BatchNorm normalises with: the batch's in training mode, the
\* running mean in evaluation mode.
BatchNormMean(rm, x, train) ==
    IF train THEN BatchMean(x) * MeanScale ELSE rm

\* What the block's output is computed from.
BlockOutput(x, w, mean) == [input |-> x, weight |-> w, mean |-> mean]

\* Sample weights: the multiples of 1/2 from -1 to MaxWeightHalves / 2.
WeightValues == { h * (Scale \div 2) : h \in (-2)..MaxWeightHalves }
Filters == [1..2 -> WeightValues]

InitBlock ==
    /\ InitEncoder({ MakeCfg(<<p>>, 1, <<1, 1>>, 2) :
                       p \in { q \in Profiles : q.num_chan = 2 } })
    /\ weight \in Filters
    /\ running_mean = 0
    /\ calls = <<>>
    /\ InitValuesIdle
    /\ InitCliIdle

\* One forward evaluation of the block on batch x in the given mode.
BlockForward ==
    /\ Len(calls) < MaxCalls
    /\ \E x \in InputBatches, train \in BOOLEAN :
         LET w == ConstrainedWeights(weight, TRUE)
         IN  /\ weight' = w
             /\ running_mean' = BatchNormUpdate(running_mean, x, train)
             /\ calls' = Append(calls,
                    [ input |-> x, train |-> train,
                      w_in |-> weight, w_out |-> w,
                      out |-> BlockOutput(x, w, BatchNormMean(running_mean, x, train)) ])
    /\ UNCHANGED << encvars, valvars, clivars >>

NextBlock == BlockForward

SpecBlock == InitBlock /\ [][NextBlock]_vars

\* ============================================== the dense feature by value
\* The dense features of one channel of one modality, followed by value
\* through the levels and into the output.  x_fg, the pooled output of the
\* dense extractor, depends on the input and on the parameters; its rows are
\* sampled.
FineValues == (-2)..2
FineRows == [1..3 -> FineValues]

\* torch.mean(x.pow(2), dim=-1), as a fraction
MeanSquare(x) ==
    [num |-> SumSeq([j \in 1..Len(x) |-> x[j] * x[j]]), den |-> Len(x)]

\* torch.log: the logarithm of 0 is -inf, no exception is raised.
Log(r) == [finite |-> r.num > 0, of |-> r]

get_info(x) == Log(MeanSquare(x))

\* FeedForward starts with a LayerNorm: its mean over a vector holding -inf
\* is -inf, and every normalised entry is NaN or infinite.
FeedForwardFinite(v) == \A j \in 1..Len(v) : v[j].finite

DenseConfigs ==
    { MakeCfg(<<p, p>>, d, <<1, 1>>, 2) :
        p \in { q \in Profiles : q.num_time = 9 }, d \in 1..MaxDepth }

InitDense == InitEncoder(DenseConfigs) /\ InitBlockIdle /\ InitValuesIdle /\ InitCliIdle

\* One level: x_info = self.get_info(x_fg); depth_dense_feature.append(x_info)
DenseLevel ==
    /\ info_out.state = "none"
    /\ Len(x_infos) < cfg.depth
    /\ \E x_fg \in FineRows : x_infos' = Append(x_infos, get_info(x_fg))
    /\ UNCHANGED << encvars, blockvars, clivars, info_out, attn_in, attn_out >>

\* After the last level: the compressor and the output head are applied to
\* the features and forward returns their result.
DenseReturn ==
    /\ info_out.state = "none"
    /\ Len(x_infos) = cfg.depth
    /\ info_out' = [ state  |-> "returned",
                     finite |-> FeedForwardFinite(x_infos),
                     from   |-> x_infos ]
    /\ UNCHANGED << encvars, blockvars, clivars, x_infos, attn_in, attn_out >>

NextDense ==
    \/ DenseLevel
    \/ DenseReturn

SpecDense == InitDense /\ [][NextDense]_vars

\* ======================================= cross-modal attention by value
\* One query token of modality i against the key/value pool built from the
\* other modalities, one head of dimension 1, followed by value: in exact
\* arithmetic and in the floating-point arithmetic of the block above.
\* The exponential is taken to base 2 so that the scores, which are integers
\* here, have exactly representable exponentials.
Queries == { 1, 2 }

\* Sample (x, x_q, x_k, x_v) tuples of another modality: its tokens' keys
\* (integers) and values (held floating-point numbers).
TokenLists ==
    { << [k |-> 1, v |-> 3 * Scale] >>,
      << [k |-> 2, v |-> Scale \div 2], [k |-> 0, v |-> 5 * (Scale \div 4)] >>,
      << [k |-> 1, v |-> 3 * (Scale \div 2)], [k |-> 1, v |-> 7 * (Scale \div 4)] >> }

Orderings(n) == { f \in [1..n -> 1..n] : \A a, b \in 1..n : f[a] = f[b] => a = b }

\* The list of the other modalities taken in the given order.
Reorder(others, order) == [ j \in 1..Len(others) |-> others[order[j]] ]

RECURSIVE Cat(_)
Cat(lists) == IF lists = <<>> THEN <<>> ELSE Head(lists) \o Cat(Tail(lists))

\* torch.cat([k for _, _, k, _ in other_channels_output], dim=-2)
KeysOf(others) ==
    Cat([ j \in 1..Len(others) |-> [ t \in 1..Len(others[j]) |-> others[j][t].k ] ])

\* Variant: the values are gathered from the list in reverse order.
ValuesOf_Reversed(others) ==
    Cat([ j \in 1..Len(others) |->
            [ t \in 1..Len(others[Len(others) + 1 - j]) |->
                others[Len(others) + 1 - j][t].v ] ])

\* torch.cat([v for _, _, _, v in other_channels_output], dim=-2)
ValuesOf(others) ==
    Cat([ j \in 1..Len(others) |-> [ t \in 1..Len(others[j]) |-> others[j][t].v ] ])

\* dots = torch.matmul(q, k.transpose(-1, -2)) * self.scale
Dots(q, k) == [ j \in 1..Len(k) |-> q * k[j] ]

RECURSIVE SeqMax(_)
SeqMax(s) == IF Len(s) = 1 THEN s[1] ELSE Max(s[Len(s)], SeqMax(SubSeq(s, 1, Len(s) - 1)))

\* Sum of held floating-point numbers, accumulated from left to right.
RECURSIVE FSum(_)
FSum(s) == IF s = <<>> THEN 0 ELSE FAdd(FSum(SubSeq(s, 1, Len(s) - 1)), s[Len(s)])

\* Softmax numerators exp(dots - max): exact powers of two.
ExpShifted(dots) == [ j \in 1..Len(dots) |-> Scale \div Pow2(SeqMax(dots) - dots[j]) ]

\* attn = softmax(dots); out = torch.matmul(attn, v), in exact arithmetic:
\* the fraction sum(e_j * v_j) / sum(e_j).
AttentionExact(q, k, v) ==
    LET e == ExpShifted(Dots(q, k))
    IN  [ num |-> SumSeq([ j \in 1..Len(e) |-> e[j] * v[j] ]), den |-> SumSeq(e) ]

\* The same in floating point: every sum, quotient and product is rounded.
AttentionFloat(q, k, v) ==
    LET e    == ExpShifted(Dots(q, k))
        attn == [ j \in 1..Len(e) |-> FDiv(e[j], FSum(e)) ]
    IN  FSum([ j \in 1..Len(e) |-> FMul(attn[j], v[j]) ])

InitAttn ==
    /\ InitEncoder({ c \in DenseConfigs : c.depth = 1 })
    /\ InitBlockIdle
    /\ InitCliIdle
    /\ x_infos = <<>>
    /\ info_out = [state |-> "none"]
    /\ attn_in \in { [x_q |-> q, others |-> o] :
                       q \in Queries, o \in [1..(MaxM - 1) -> TokenLists] }
    /\ attn_out = <<>>

\* CrossChannelTransformerEncoderLayer.forward on the other modalities taken
\* in some order.
CrossAttend ==
    /\ Len(attn_out) < MaxCalls
    /\ \E order \in Orderings(Len(attn_in.others)) :
         LET other_channels_output == Reorder(attn_in.others, order)
             k_pool == KeysOf(other_channels_output)
             v_pool == ValuesOf(other_channels_output)
         IN  attn_out' = Append(attn_out,
                 [ order |-> order, k_agg |-> k_pool, v_agg |-> v_pool,
                   exact |-> AttentionExact(attn_in.x_q, k_pool, v_pool),
                   out   |-> AttentionFloat(attn_in.x_q, k_pool, v_pool) ])
    /\ UNCHANGED << encvars, blockvars, clivars, x_infos, info_out, attn_in >>

NextAttn == CrossAttend

SpecAttn == InitAttn /\ [][NextAttn]_vars

\* ------------------------------------------------ command-line arguments
\* parser_util.parse_and_load_from_model, called by model_parser on a parser
\* that holds the 'base' group, and the add_model_options it calls.

\* Python's None where a modality name is expected.
None == "<None>"

Modalities == { "eeg", "ppg", "eda", "resp" }
ModelNames == { "UnimodalDeformer", "MultiChannelDeformer" }

Option(dest, default) == [dest |-> dest, default |-> default]
Group(title, actions) == [title |-> title, actions |-> actions]
Restrict(f, keys) == [ k \in keys |-> f[k] ]

\* Variant: a modality that is not eeg, ppg or eda is taken for resp.
add_model_options_Unchecked(default_out_dim, modality) ==
    LET eeg == modality = "eeg"
        num_time == IF eeg THEN 4 * 128
                    ELSE IF modality = "ppg" THEN 6 * 32
                    ELSE IF modality = "eda" THEN 4 * 32
                    ELSE 10 * 32
    IN  [ raised  |-> "none",
          options |-> << Option("num_chan", IF eeg THEN 16 ELSE 1),
                         Option("num_time", num_time),
                         Option("num_kernel", IF eeg THEN 64 ELSE 4),
                         Option("temporal_kernel", 13),
                         Option("depth", 4),
                         Option("heads", 16),
                         Option("mlp_dim", 16),
                         Option("dim_head", 16),
                         Option("dropout", 500),
                         Option("emb_dim", IF eeg THEN 256 ELSE 16),
                         Option("out_dim", default_out_dim) >> ]

\* UnimodalDeformer.add_model_options: the exception it raises and the options
\* it registers in parser_group, in order (the dropout default 0.5 is held
\* in thousandths).
add_model_options(default_out_dim, modality) ==
    LET eeg == modality = "eeg"
        num_time == IF eeg THEN 4 * 128
                    ELSE IF modality = "ppg" THEN 6 * 32
                    ELSE IF modality = "eda" THEN 4 * 32
                    ELSE 10 * 32
    IN  IF modality = None
        THEN [raised |-> "ValueError", options |-> <<>>]
        ELSE IF modality \notin Modalities
        THEN [raised |-> "ValueError", options |-> <<>>]
        ELSE [ raised  |-> "none",
               options |-> << Option("num_chan", IF eeg THEN 16 ELSE 1),
                              Option("num_time", num_time),
                              Option("num_kernel", IF eeg THEN 64 ELSE 4),
                              Option("temporal_kernel", 13),
                              Option("depth", 4),
                              Option("heads", 16),
                              Option("mlp_dim", 16),
                              Option("dim_head", 16),
                              Option("dropout", 500),
                              Option("emb_dim", IF eeg THEN 256 ELSE 16),
                              Option("out_dim", default_out_dim) >> ]

\* get_model_cls(model_name).add_model_options(parser_group=...,
\* default_out_dim=..., modality=...): MultiChannelDeformer.add_model_options
\* takes parser_group only, so the keyword call raises TypeError.
CallAddModelOptions(model_name, default_out_dim, modality) ==
    IF model_name = "UnimodalDeformer"
    THEN add_model_options(default_out_dim, modality)
    ELSE [raised |-> "TypeError", options |-> <<>>]

\* add_base_options, as far as the saved arguments can name its options
\* (model_name is required and always given on the command line).
add_base_options(p) ==
    Append(p, Group("base", << Option("cuda", 0), Option("device", 0) >>))

add_seed(p) == Append(p, Group("seed", << Option("seed", 420) >>))

\* Variant: the options of the 'base' group are loaded from the model too.
group_names_WithBase == << "base", "seed", "model" >>

group_names == << "seed", "model" >>

\* get_args_per_group_name: the dests of the first group with that title.
get_args_per_group_name(p, group_name) ==
    LET found == { g \in 1..Len(p) : p[g].title = group_name }
        first == CHOOSE g \in found : \A h \in found : g <= h
    IN  [ j \in 1..Len(p[first].actions) |-> p[first].actions[j].dest ]

RECURSIVE ArgsOfGroups(_, _)
ArgsOfGroups(p, names) ==
    IF names = <<>> THEN <<>>
    ELSE get_args_per_group_name(p, Head(names)) \o ArgsOfGroups(p, Tail(names))

\* parser.parse_known_args(): every registered option gets the value given
\* on the command line, or its default.
parse_known_args(p, given) ==
    LET opts == UNION { { p[g].actions[j] : j \in 1..Len(p[g].actions) } :
                        g \in 1..Len(p) }
    IN  [ d \in { o.dest : o \in opts } |->
            IF d \in DOMAIN given THEN given[d]
            ELSE (CHOOSE o \in opts : o.dest = d).default ]

\* The args.json files tried: out_dim, model_name and multimodal are saved by
\* training, the other keys may be there or not.
SavedFiles ==
    LET FullFiles ==
            { [out_dim |-> 3, model_name |-> mn, multimodal |-> mm, modality |-> md,
               seed |-> 7, depth |-> 2, cuda |-> 1] :
                mn \in ModelNames, mm \in {0, 1}, md \in Modalities \cup {"ecg"} }
        KeySets ==
            { {"out_dim", "model_name", "multimodal"} \cup opt :
                opt \in SUBSET {"modality", "seed", "depth", "cuda"} }
            \cup { {"model_name", "multimodal", "modality"} }
    IN  { Restrict(f, ks) : f \in FullFiles, ks \in KeySets }

CommandLines ==
    { Restrict([seed |-> 11, depth |-> 6], ks) : ks \in SUBSET {"seed", "depth"} }

InitParser ==
    /\ InitEncoder({ c \in DenseConfigs : c.depth = 1 })
    /\ InitBlockIdle
    /\ InitValuesIdle
    /\ \/ args_path_exists = TRUE /\ args_json \in SavedFiles
       \/ args_path_exists = FALSE /\ args_json = <<>>
    /\ argv \in CommandLines
    /\ model_args = <<>>
    /\ parser = add_base_options(<<>>)
    /\ args = <<>>
    /\ args_to_overwrite = <<>>
    /\ a_idx = 0
    /\ parse_pc = "load"
    /\ parse_err = "none"
    /\ InitDriverIdle

ParseRaise(e) == parse_pc' = "raised" /\ parse_err' = e

\* assert os.path.exists(args_path); model_args = json.load(fr)
LoadModelArgs ==
    /\ parse_pc = "load"
    /\ IF args_path_exists
       THEN model_args' = args_json /\ parse_pc' = "add_seed" /\ parse_err' = parse_err
       ELSE ParseRaise("AssertionError") /\ model_args' = model_args
    /\ UNCHANGED << args_path_exists, args_json, argv, parser, args,
                    args_to_overwrite, a_idx >>
    /\ UNCHANGED << encvars, blockvars, valvars, drivervars >>

\* add_seed(parser)
AddSeed ==
    /\ parse_pc = "add_seed"
    /\ parser' = add_seed(parser)
    /\ parse_pc' = "add_model_options"
    /\ UNCHANGED << args_path_exists, args_json, argv, model_args, args,
                    args_to_overwrite, a_idx, parse_err >>
    /\ UNCHANGED << encvars, blockvars, valvars, drivervars >>

\* parser_group = parser.add_argument_group('model'), the reads of
\* model_args and the call of the model class's add_model_options.
AddModelOptions ==
    /\ parse_pc = "add_model_options"
    /\ LET needed == {"out_dim", "model_name", "multimodal"}
           truthy == model_args["multimodal"] # 0
       IN  IF ~(needed \subseteq DOMAIN model_args)
              \/ (~truthy /\ "modality" \notin DOMAIN model_args)
           THEN /\ ParseRaise("KeyError")
                /\ parser' = Append(parser, Group("model", <<>>))
           ELSE LET r == CallAddModelOptions(
                             model_args["model_name"], model_args["out_dim"],
                             IF truthy THEN None ELSE model_args["modality"])
                IN  /\ parser' = Append(parser, Group("model", r.options))
                    /\ IF r.raised # "none"
                       THEN ParseRaise(r.raised)
                       ELSE parse_pc' = "parse_known_args" /\ parse_err' = parse_err
    /\ UNCHANGED << args_path_exists, args_json, argv, model_args, args,
                    args_to_overwrite, a_idx >>
    /\ UNCHANGED << encvars, blockvars, valvars, drivervars >>

\* args, _ = parser.parse_known_args(); args_to_overwrite is collected from
\* the groups named in group_names.
ParseKnownArgs ==
    /\ parse_pc = "parse_known_args"
    /\ args' = parse_known_args(parser, argv)
    /\ args_to_overwrite' = ArgsOfGroups(parser, group_names)
    /\ a_idx' = 1
    /\ parse_pc' = "overwrite"
    /\ UNCHANGED << args_path_exists, args_json, argv, model_args, parser,
                    parse_err >>
    /\ UNCHANGED << encvars, blockvars, valvars, drivervars >>

\* One iteration of "for a in args_to_overwrite".
Overwrite ==
    /\ parse_pc = "overwrite"
    /\ a_idx <= Len(args_to_overwrite)
    /\ LET a == args_to_overwrite[a_idx]
       IN  args' = IF a \in DOMAIN model_args
                   THEN [args EXCEPT ![a] = model_args[a]]
                   ELSE args
    /\ a_idx' = a_idx + 1
    /\ UNCHANGED << args_path_exists, args_json, argv, model_args, parser,
                    args_to_overwrite, parse_pc, parse_err >>
    /\ UNCHANGED << encvars, blockvars, valvars, drivervars >>

\* return args
ReturnArgs ==
    /\ parse_pc = "overwrite"
    /\ a_idx > Len(args_to_overwrite)
    /\ parse_pc' = "returned"
    /\ UNCHANGED << args_path_exists, args_json, argv, model_args, parser, args,
                    args_to_overwrite, a_idx, parse_err >>
    /\ UNCHANGED << encvars, blockvars, valvars, drivervars >>

NextParser ==
    \/ LoadModelArgs
    \/ AddSeed
    \/ AddModelOptions
    \/ ParseKnownArgs
    \/ Overwrite
    \/ ReturnArgs

SpecParser == InitParser /\ [][NextParser]_vars

\* ------------------------------------------------------ cross-validation
\* train_cross_validation.main

\* str(n) of a natural number
RECURSIVE Str(_)
Str(n) ==
    LET Digits == << "0", "1", "2", "3", "4", "5", "6", "7", "8", "9" >>
    IN  IF n < 10 THEN Digits[n + 1] ELSE Str(n \div 10) \o Digits[(n % 10) + 1]

\* The names dir(args) yields, in its sorted order, for the Namespace that
\* train_args returns on command line c (the options the driver reads or
\* that tell the runs apart).
ArgNames(c) ==
    IF c.multimodal # 0
    THEN << "data_dir", "model_name", "multimodal", "save_dir", "seed" >>
    ELSE << "data_dir", "modality", "model_name", "multimodal", "save_dir", "seed" >>

\* Each value with its Python type.
Namespace(c) ==
    [ data_dir   |-> [kind |-> "str", v |-> "data/folds"],
      modality   |-> [kind |-> "str", v |-> c.modality],
      model_name |-> [kind |-> "str", v |-> c.model_name],
      multimodal |-> [kind |-> "int", v |-> c.multimodal],
      save_dir   |-> [kind |-> "str", v |-> "save"],
      seed       |-> [kind |-> "int", v |-> 420] ]

RECURSIVE StrAll(_)
StrAll(l) == IF l = <<>> THEN <<>> ELSE << Str(Head(l)) >> \o StrAll(Tail(l))

\* get_pass_through_args: '--' + name followed by str of the value, or of
\* each element when the value is a list.
RECURSIVE PassThrough(_, _)
PassThrough(ns, names) ==
    IF names = <<>> THEN <<>>
    ELSE LET val == ns[Head(names)]
             text == IF val.kind = "list" THEN StrAll(val.v)
                     ELSE IF val.kind = "int" THEN << Str(val.v) >>
                     ELSE << val.v >>
         IN  << "--" \o Head(names) >> \o text \o PassThrough(ns, Tail(names))

get_pass_through_args(c) == PassThrough(Namespace(c), ArgNames(c))

\* Variant: a subprocess that exits with a non-zero code raises in main.
RunRaises_Checked(returncode) == returncode # 0

\* subprocess.run(args=[...]) is called without check=True: the exit code of
\* the child is returned and never raised.
RunRaises(returncode) == FALSE

\* The directory listings tried: fold directories named 1..MaxFolds and one
\* plain file, any subset, in any order.
Entries ==
    { [name |-> Str(n), isdir |-> TRUE] : n \in 1..MaxFolds }
    \cup { [name |-> "folds.json", isdir |-> FALSE] }

Listings ==
    { l \in UNION { [1..n -> Entries] : n \in 0..(MaxFolds + 1) } :
        \A i, j \in 1..Len(l) : i # j => l[i] # l[j] }

CommandInputs ==
    { [model_name |-> mn, multimodal |-> mm, modality |-> md] :
        mn \in ModelNames, mm \in {0, 1}, md \in {"eeg", "resp"} }

RECURSIVE Dirs(_)
Dirs(l) ==
    IF l = <<>> THEN <<>>
    ELSE (IF Head(l).isdir THEN << Head(l).name >> ELSE <<>>) \o Dirs(Tail(l))

\* The keys of the selection in sorted order (the names are 1..MaxFolds).
Sorted(names) ==
    LET present == { n \in 1..MaxFolds : \E j \in 1..Len(names) : names[j] = Str(n) }
        Rank(n) == Cardinality({ m \in present : m <= n })
    IN  [ r \in 1..Cardinality(present) |-> Str(CHOOSE n \in present : Rank(n) = r) ]

InitDriver ==
    /\ InitEncoder({ c \in DenseConfigs : c.depth = 1 })
    /\ InitBlockIdle
    /\ InitValuesIdle
    /\ InitParserIdle
    /\ cmd \in CommandInputs
    /\ data_dir \in Listings
    /\ folds = <<>>
    /\ pass_through_args = <<>>
    /\ f_idx = 0
    /\ running = {}
    /\ events = <<>>
    /\ drv_pc = "train_args"
    /\ drv_err = "none"

\* args = train_args(cross_validate=True): it registers the model's options
\* with the keyword call of add_model_options and raises what that raises.
TrainArgs ==
    /\ drv_pc = "train_args"
    /\ LET r == CallAddModelOptions(cmd.model_name, 2,
                    IF cmd.multimodal # 0 THEN None ELSE cmd.modality)
       IN  IF r.raised # "none"
           THEN drv_pc' = "raised" /\ drv_err' = r.raised
           ELSE drv_pc' = "save_args" /\ drv_err' = drv_err
    /\ UNCHANGED << cmd, data_dir, folds, pass_through_args, f_idx, running, events >>
    /\ UNCHANGED << encvars, blockvars, valvars, parservars >>

\* save_args(args, create_model); fixseed(args.seed); the folds are the
\* directories of the listing; pass_through_args = get_pass_through_args(args)
SaveArgs ==
    /\ drv_pc = "save_args"
    /\ events' = Append(events, [ev |-> "save_args", fold |-> ""])
    /\ folds' = Dirs(data_dir)
    /\ pass_through_args' = get_pass_through_args(cmd)
    /\ f_idx' = 1
    /\ drv_pc' = "loop"
    /\ UNCHANGED << cmd, data_dir, running, drv_err >>
    /\ UNCHANGED << encvars, blockvars, valvars, parservars >>

\* subprocess.run starts "python -m train.train --fold f <pass_through_args>".
StartFold ==
    /\ drv_pc = "loop"
    /\ f_idx <= Len(folds)
    /\ running' = running \cup { folds[f_idx] }
    /\ events' = Append(events,
                    [ev |-> "start", fold |-> folds[f_idx],
                     argv |-> << "python", "-m", "train.train", "--fold", folds[f_idx] >>
                              \o pass_through_args])
    /\ drv_pc' = "wait"
    /\ UNCHANGED << cmd, data_dir, folds, pass_through_args, f_idx, drv_err >>
    /\ UNCHANGED << encvars, blockvars, valvars, parservars >>

\* subprocess.run returns when the child has ended, with any exit code.
FoldExits ==
    /\ drv_pc = "wait"
    /\ \E code \in {0, 1} :
         /\ events' = Append(events,
                         [ev |-> "exit", fold |-> folds[f_idx], code |-> code])
         /\ IF RunRaises(code)
            THEN drv_pc' = "raised" /\ drv_err' = "CalledProcessError" /\ f_idx' = f_idx
            ELSE drv_pc' = "loop" /\ drv_err' = drv_err /\ f_idx' = f_idx + 1
    /\ running' = running \ { folds[f_idx] }
    /\ UNCHANGED << cmd, data_dir, folds, pass_through_args >>
    /\ UNCHANGED << encvars, blockvars, valvars, parservars >>

\* best_fold_checkpoints = cross_validate(folds, args.save_dir)
SelectCheckpoints ==
    /\ drv_pc = "loop"
    /\ f_idx > Len(folds)
    /\ events' = Append(events, [ev |-> "cross_validate", fold |-> "", of |-> folds])
    /\ drv_pc' = "write"
    /\ UNCHANGED << cmd, data_dir, folds, pass_through_args, f_idx, running, drv_err >>
    /\ UNCHANGED << encvars, blockvars, valvars, parservars >>

\* The selection is sorted by fold and dumped to cross_validation.json.
WriteSelection ==
    /\ drv_pc = "write"
    /\ events' = Append(events,
                    [ev |-> "write", fold |-> "", file |-> "cross_validation.json",
                     keys |-> Sorted(folds)])
    /\ drv_pc' = "done"
    /\ UNCHANGED << cmd, data_dir, folds, pass_through_args, f_idx, running, drv_err >>
    /\ UNCHANGED << encvars, blockvars, valvars, parservars >>

NextDriver ==
    \/ TrainArgs
    \/ SaveArgs
    \/ StartFold
    \/ FoldExits
    \/ SelectCheckpoints
    \/ WriteSelection

SpecDriver == InitDriver /\ [][NextDriver]_vars

\* ================================================================== claims
\* floor(T_i * 0.5^D) >= 1 for every modality
HalvingValid == \A i \in 1..M : HalfTimes(cfg.num_time[i], cfg.depth) >= 1

\* The configurations section 4.1 of the specification does not call invalid:
\* at least one channel and a temporal kernel shorter than the time length.
FrontEndValid ==
    \A i \in 1..M : cfg.num_chan[i] >= 1 /\ cfg.temporal_kernel[i] < cfg.num_time[i]

\* C1 as stated: for every valid configuration (any number M of modalities,
\* floor(T_i * 0.5^D) >= 1) and every batch size, forward does not raise and
\* returns an array shaped (batch, out_dim).
C1_AnyValidConfigReturns ==
    (HalvingValid /\ FrontEndValid) =>
        /\ pc # "failed"
        /\ pc = "done" => emb.shape = <<batch, cfg.out_dim>>

\* The configurations on which forward does return.
ShapeValid ==
    /\ M >= 2
    /\ HalvingValid
    /\ \A i \in 1..M : cfg.num_chan[i] >= 1 /\ cfg.temporal_kernel[i] % 2 = 1

\* C1 (amended): with at least two modalities, at least one channel and an
\* odd temporal kernel length per modality and floor(T_i * 0.5^D) >= 1,
\* forward never raises, and when it returns the array is shaped exactly
\* (batch, out_dim).
C1_ForwardShape ==
    ShapeValid =>
        /\ pc # "failed"
        /\ pc = "done" => emb.shape = <<batch, cfg.out_dim>>

C1_Witness ==
    /\ pc = "done" /\ ShapeValid /\ M = MaxM /\ batch = 7
    /\ cfg.depth = MaxDepth /\ emb.shape = <<7, cfg.out_dim>>

\* The modality and level of the last cross-modal fusion that ran.
LastCross == new_channels_output[Len(new_channels_output)]

\* Number of positions of pool that hold token t of modality j.
Occurrences(pool, j, t) ==
    Cardinality({ p \in 1..Len(pool) : pool[p].mod = j /\ pool[p].tok = t })

PoolExcludesSelf(pool, i) ==
    /\ \A p \in 1..Len(pool) : pool[p].mod # i
    /\ \A j \in (1..M) \ {i} : \A t \in 1..cfg.num_kernel[j] :
           Occurrences(pool, j, t) = 1
    /\ Len(pool) = SumSeq([j \in 1..M |-> IF j = i THEN 0 ELSE cfg.num_kernel[j]])

\* C2: at every level and for every modality i, the key pool and the value
\* pool of cross-modal fusion hold the tokens of exactly the modalities
\* j # i, each once, none of modality i, sum over j # i of K_j tokens.
C2_PoolExcludesSelf ==
    new_channels_output # <<>> =>
        /\ PoolExcludesSelf(k_agg, LastCross.mod)
        /\ PoolExcludesSelf(v_agg, LastCross.mod)

C2_Witness ==
    /\ new_channels_output # <<>> /\ M = 3 /\ LastCross.mod = 2
    /\ LastCross.level = 2 /\ Len(k_agg) = 3

\* C3: cross-modal fusion at level l runs only when Level Fusion of level l
\* is complete for all M modalities, and the keys and values it reads are
\* the level-l Level-Fusion projections: no element of the list it reads has
\* been replaced by a cross-modal fusion result of that level.
C3_Barrier ==
    /\ pc = "cross" =>
         /\ Len(dense_feature) = lvl
         /\ Len(channels_output) = M
         /\ \A n \in 1..M :
              /\ channels_output[n].kind = "tuple"
              /\ channels_output[n].level = lvl
              /\ channels_output[n].mod = n
    /\ new_channels_output # <<>> =>
         \A p \in 1..Len(k_agg) :
              /\ k_agg[p].from = "tuple" /\ k_agg[p].level = LastCross.level
              /\ v_agg[p].from = "tuple" /\ v_agg[p].level = LastCross.level

C3_Witness ==
    /\ pc = "cross" /\ idx = 3 /\ lvl = 2 /\ M = 3
    /\ Len(new_channels_output) = 2 /\ k_agg # <<>>

\* C4: after the level loop every modality has exactly D dense features, one
\* per level, in level order, each shaped (batch, K_i), and the compressor
\* of modality i consumed exactly these D features of modality i.
C4_DenseFeatures ==
    pc \in {"compress", "head", "done"} =>
        /\ Len(dense_feature) = cfg.depth
        /\ \A l \in 1..cfg.depth :
             /\ Len(dense_feature[l]) = M
             /\ \A i \in 1..M :
                  dense_feature[l][i] =
                      [shape |-> <<batch, cfg.num_kernel[i]>>, mod |-> i, level |-> l]
        /\ \A p \in 1..Len(modality_specific_emb) :
             /\ modality_specific_emb[p].mod = p
             /\ Len(modality_specific_emb[p].levels) = cfg.depth
             /\ \A l \in 1..cfg.depth :
                  modality_specific_emb[p].levels[l] =
                      [shape |-> <<batch, cfg.num_kernel[p]>>, mod |-> p, level |-> l]

C4_Witness ==
    /\ pc = "done" /\ cfg.depth = 2 /\ M = 3
    /\ Len(modality_specific_emb) = 3
    /\ cfg.num_kernel[1] = cfg.num_kernel[2]

\* Parameters of a front end without spatial convolution: the temporal
\* convolution (weight and bias) and the batch normalisation.
NoSpatialParams(K, k) == (K * k + K) + 2 * K

\* C5: the spatial convolution exists and is applied exactly when C_i > 1;
\* for C_i = 1 the front end has the parameter count of the configuration
\* without a spatial convolution.
C5_SpatialConvIffMultiChannel ==
    enc.built =>
        /\ \A i \in 1..M :
             /\ enc.cnn_encoders[i].spatial <=> cfg.num_chan[i] > 1
             /\ cfg.num_chan[i] = 1 =>
                  FrontEndParams(enc.cnn_encoders[i])
                      = NoSpatialParams(cfg.num_kernel[i], cfg.temporal_kernel[i])
        /\ \A i \in 1..Len(channels) :
             channels[i].kind = "enc" =>
                 ((\E n \in 1..Len(channels[i].via) : channels[i].via[n] = "spatial_conv")
                    <=> cfg.num_chan[i] > 1)

C5_Witness ==
    /\ pc = "hct" /\ lvl = 1 /\ idx = 1 /\ M = 2
    /\ cfg.num_chan = <<2, 1>>
    /\ channels[1].via[2] = "spatial_conv"
    /\ channels[2].via = <<"temporal_conv", "batch_norm", "elu", "pos_embedding">>

\* C6: a configuration with a modality of 0 channels, or with a temporal
\* kernel at least as long as the time length, is rejected by the
\* constructor: no encoder is built from it.
C6_InvalidFrontEndRejected ==
    enc.built => FrontEndValid

\* C7: a configuration with floor(T_i * 0.5^D) < 1 for some modality fails at
\* construction: no encoder is built and no failure appears in forward.
C7_HalvingRejectedAtConstruction ==
    ~HalvingValid => (~enc.built /\ err.phase # "forward")

\* C9: forward leaves the caller's list as it was passed: the same elements
\* with the same contents after forward returns.
C9_CallerListUnchanged ==
    pc = "done" => channels = passed

\* The exact squared norm of a filter is within max_norm squared.
Compliant(w) ==
    SumSeq([j \in 1..Len(w) |-> w[j] * w[j]])
        <= (max_norm * Scale) * (max_norm * Scale)

\* No forward evaluation from call p to call q changed the stored weights.
WeightsFixed(p, q) == \A n \in p..q : calls[n].w_in = calls[n].w_out

C10_RenormIdempotent ==
    /\ \A p \in 1..Len(calls) : Compliant(calls[p].w_in) => calls[p].w_out = calls[p].w_in
    /\ \A p \in 1..(Len(calls) - 1) : calls[p + 1].w_out = calls[p].w_out

\* C11: every forward evaluation of the constrained convolution, in training
\* and in evaluation mode, overwrites the stored weights with the rescaled
\* ones and computes with them, and the L2 norm of the filter it computes
\* with is <= max_norm.
C11_StoredNormWithinMax ==
    /\ \A p \in 1..Len(calls) :
         /\ calls[p].w_out = ConstrainedWeights(calls[p].w_in, TRUE)
         /\ calls[p].out.weight = calls[p].w_out
         /\ Compliant(calls[p].w_out)
    /\ calls # <<>> => weight = calls[Len(calls)].w_out

\* C12: at every level the query, key and value projections of every
\* modality map into heads * dim_head, whatever the modality's own token
\* dimension; depth, heads and dim_head are single values, so every modality
\* has the same number of levels.
C12_SharedInnerDim ==
    /\ enc.built =>
         /\ Len(enc.transformer.layers) = cfg.depth
         /\ \A l \in 1..cfg.depth :
              /\ Len(enc.transformer.layers[l]) = M
              /\ \A k \in 1..M :
                   /\ enc.transformer.layers[l][k].inner_dim = cfg.heads * cfg.dim_head
                   /\ enc.transformer.layers[l][k].heads = cfg.heads
                   /\ enc.transformer.layers[l][k].dim_head = cfg.dim_head
    /\ \A n \in 1..Len(channels_output) :
         channels_output[n].kind = "tuple" =>
             channels_output[n].qkv =
                 << channels_output[n].shape[1], cfg.num_kernel[n],
                    cfg.heads * cfg.dim_head >>

C12_Witness ==
    /\ pc = "cross" /\ lvl = 2 /\ idx = 1 /\ M = 3
    /\ cfg.heads = 2 /\ cfg.dim_head = 2
    /\ channels_output[1].shape[3] # channels_output[2].shape[3]
    /\ channels_output[1].qkv[3] = 4 /\ channels_output[2].qkv[3] = 4

\* The arrays passed to forward have the configured channel counts and time
\* lengths and one common batch size.
InputsMatch ==
    \A i \in 1..Len(passed) :
        /\ passed[i].shape[1] = passed[1].shape[1]
        /\ passed[i].shape[2] = cfg.num_chan[i]
        /\ passed[i].shape[3] = cfg.num_time[i]

\* C13: on the configurations on which forward works, an input array whose
\* channel count, time length or batch size disagrees with the configuration
\* or with the other arrays makes forward raise: it never returns an output.
C13_MismatchNeverReturns ==
    (ShapeValid /\ FrontEndValid) => (pc = "done" => InputsMatch)

\* C14: a non-finite dense feature (the logarithm of a mean square that is
\* 0) is fatal: forward never returns an output computed from one.
C14_NonFiniteIsFatal ==
    info_out.state = "returned" =>
        /\ info_out.finite
        /\ \A l \in 1..Len(info_out.from) : info_out.from[l].finite

\* C15 as stated: the output of cross-modal fusion for modality i is the same
\* for every ordering of the other modalities in the pool.
C15_SameOutputAnyOrder ==
    \A p, q \in 1..Len(attn_out) : attn_out[p].out = attn_out[q].out

\* C15 (amended): up to the rounding of floating-point sums, that is, in
\* exact arithmetic, the output of cross-modal fusion for modality i is the
\* same for every ordering of the other modalities in the pool, keys and
\* values being gathered in the same order.
C15_SameExactOutputAnyOrder ==
    \A p, q \in 1..Len(attn_out) :
        attn_out[p].exact.num * attn_out[q].exact.den
            = attn_out[q].exact.num * attn_out[p].exact.den

C15_Witness ==
    /\ Len(attn_out) >= 2
    /\ attn_out[1].order # attn_out[2].order
    /\ attn_out[1].k_agg # attn_out[2].k_agg
    /\ attn_out[1].v_agg # attn_out[2].v_agg
    /\ Len(attn_out[1].k_agg) >= 3
    /\ attn_out[1].exact = attn_out[2].exact
    /\ attn_out[1].out # attn_out[2].out

\* The token feature length the last level of configuration c is built for.
FinalTokenLen(c, i) == TransformerInit(c).layers[c.depth][i].dim

\* C16: with everything else fixed, depth 2 instead of depth 4 gives every
\* modality 2 dense features instead of 4 and a strictly longer final token
\* feature length, floor(T_i / 4) > floor(T_i / 16); a run of forward yields
\* as many dense features per modality as the depth, and final tokens of
\* the length the last level was built for.
C16_DepthTwoVersusFour ==
    LET deep    == [cfg EXCEPT !.depth = DefaultDepth]
        shallow == [cfg EXCEPT !.depth = DefaultDepth \div 2]
    IN  /\ Len(TransformerInit(deep).layers) = 4
        /\ Len(TransformerInit(shallow).layers) = 2
        /\ \A i \in 1..M :
             /\ FinalTokenLen(deep, i) = cfg.num_time[i] \div 16
             /\ FinalTokenLen(shallow, i) = cfg.num_time[i] \div 4
             /\ FinalTokenLen(shallow, i) > FinalTokenLen(deep, i)
        /\ pc = "done" =>
             \A i \in 1..M :
                 /\ Len(ModalityLevels(dense_feature, i)) = cfg.depth
                 /\ channels_output[i].shape[3] = FinalTokenLen(cfg, i)

C16_Witness ==
    /\ pc = "done" /\ cfg.depth = DefaultDepth /\ M = 2
    /\ cfg.num_time = <<20, 33>>
    /\ Len(ModalityLevels(dense_feature, 1)) = 4
    /\ channels_output[1].shape[3] = 1 /\ channels_output[2].shape[3] = 2

\* C17: the output head receives the per-modality embeddings concatenated in
\* ascending modality order, and the input width it was built with, the sum
\* of the embedding widths, is the width of that concatenation.
C17_ConcatInModalityOrder ==
    /\ enc.built => enc.transformer.output_ffwd.dim = SumSeq(cfg.emb_dim)
    /\ pc \in {"head", "done"} =>
         /\ Len(modality_specific_emb) = M
         /\ \A i \in 1..M :
              /\ modality_specific_emb[i].mod = i
              /\ modality_specific_emb[i].shape = <<batch, cfg.emb_dim[i]>>
    /\ pc = "done" =>
         /\ emb.order = [i \in 1..M |-> i]
         /\ emb.widths = cfg.emb_dim
         /\ SumSeq(emb.widths) = enc.transformer.output_ffwd.dim

C17_Witness ==
    /\ pc = "done" /\ M = 3
    /\ cfg.emb_dim = <<3, 2, 3>>
    /\ emb.order = <<1, 2, 3>> /\ emb.widths = <<3, 2, 3>>

\* The front-end temporal convolution of modality i returns T_i samples, and
\* at every level that receives at least one sample the dense extractor's
\* convolution returns as many samples as it is given, so that the fine
\* branch has the coarse branch's length.
LengthPreserved(i) ==
    /\ ConvLen(cfg.num_time[i], enc.cnn_encoders[i].kernel, enc.cnn_encoders[i].pad)
           = cfg.num_time[i]
    /\ \A l \in 1..cfg.depth :
           LET blk == enc.transformer.layers[l][i]
               L   == HalfTimes(cfg.num_time[i], l - 1)
           IN  L >= 1 =>
                   /\ ConvLen(L, blk.kernel, blk.pad) = L
                   /\ PoolLen(ConvLen(L, blk.kernel, blk.pad)) = PoolLen(L)
                   /\ L >= 2 => PoolLen(L) = L \div 2

\* The lengths seen in a run: T_i after the front end, T_i halved l times
\* after the Level Fusion of level l.
LengthsInRun(i) ==
    /\ i <= Len(channels) /\ channels[i].kind = "enc"
         => channels[i].shape[3] = cfg.num_time[i]
    /\ i <= Len(channels_output) /\ channels_output[i].kind = "tuple"
         => channels_output[i].shape[3]
                = HalfTimes(cfg.num_time[i], channels_output[i].level)

\* C18 as stated: for every temporal kernel length k >= 1, odd or even, and
\* every time length, the padding floor((k-1)/2) makes both temporal
\* convolutions return the length they are given, and the two branches of a
\* level have equal length.
C18_PaddingPreservesLength ==
    enc.built => \A i \in 1..M : LengthPreserved(i) /\ LengthsInRun(i)

\* C18 (amended): the same for every odd temporal kernel length; no run
\* with odd kernels fails for a length mismatch at the positional embedding
\* or at the sum of the two branches.
C18_OddKernelPreservesLength ==
    enc.built =>
        /\ \A i \in 1..M :
             cfg.temporal_kernel[i] % 2 = 1 => LengthPreserved(i) /\ LengthsInRun(i)
        /\ (\A i \in 1..M : cfg.temporal_kernel[i] % 2 = 1)
             => err.at \notin {"pos_embedding", "ff_plus_fg"}

C18_Witness ==
    /\ pc = "cross" /\ lvl = 2 /\ M = 2
    /\ cfg.temporal_kernel = <<3, 3>> /\ cfg.num_time = <<9, 9>>
    /\ channels_output[1].shape[3] = 2
    /\ LengthPreserved(1)

\* d_0 = floor(T * 0.5), d_l = floor(d_(l-1) * 0.5): levels counted from 0,
\* as range(depth) counts them.
RECURSIVE TokenDim(_, _)
TokenDim(T, l) == IF l = 0 THEN T \div 2 ELSE TokenDim(T, l - 1) \div 2

\* C19: the layers of level l are built for dimension d_l; the tokens that
\* leave Level Fusion and cross-modal fusion of level l, and so enter level
\* l + 1, are shaped (batch, K_i, d_l); no layer is reached by a tensor of
\* another feature dimension than it was built for.
C19_TokenShapeAcrossLevels ==
    /\ enc.built =>
         \A l \in 1..cfg.depth : \A i \in 1..M :
             /\ enc.transformer.layers[l][i].dim = TokenDim(cfg.num_time[i], l - 1)
             /\ enc.transformer.layers[l][i].cross_out = TokenDim(cfg.num_time[i], l - 1)
             /\ enc.transformer.layers[l][i].in_chan = cfg.num_kernel[i]
    /\ \A n \in 1..Len(channels_output) :
         channels_output[n].kind \in {"tuple", "x"} =>
             channels_output[n].shape =
                 << batch, cfg.num_kernel[n],
                    TokenDim(cfg.num_time[n], channels_output[n].level - 1) >>
    /\ \A n \in 1..Len(new_channels_output) :
         new_channels_output[n].shape =
             << batch, cfg.num_kernel[new_channels_output[n].mod],
                TokenDim(cfg.num_time[new_channels_output[n].mod],
                         new_channels_output[n].level - 1) >>
    /\ err.at \notin {"attn", "q_layer", "ffwd", "x_plus_sa"}

C19_Witness ==
    /\ pc = "hct" /\ lvl = 2 /\ idx = 1 /\ M = 3
    /\ cfg.num_time[1] = 9 /\ cfg.num_time[2] = 4
    /\ channels_output[1].kind = "x" /\ channels_output[1].level = 1
    /\ channels_output[1].shape = <<7, 2, 4>>
    /\ channels_output[2].shape = <<7, 1, 2>>

\* C20: the input width the compressor of modality i is built with,
\* int(T_i * 0.5^D) * K_i + K_i * D, is the width of the vector it receives:
\* the K_i final tokens of T_i halved D times, flooring at each level,
\* flattened, followed by D dense features of K_i values each.
C20_CompressorWidth ==
    /\ enc.built =>
         \A i \in 1..M :
             enc.transformer.modality_compression_layers[i].dim
                 = (cfg.num_time[i] \div Pow2(cfg.depth)) * cfg.num_kernel[i]
                       + cfg.num_kernel[i] * cfg.depth
    /\ \A p \in 1..Len(modality_specific_emb) :
         /\ modality_specific_emb[p].width
                = enc.transformer.modality_compression_layers[p].dim
         /\ modality_specific_emb[p].width
                = cfg.num_kernel[p] * HalfTimes(cfg.num_time[p], cfg.depth)
                      + cfg.depth * cfg.num_kernel[p]
    /\ err.at # "modality_compression_layers"

C20_Witness ==
    /\ pc = "head" /\ M = 3 /\ cfg.depth = 2
    /\ cfg.num_time[3] = 9 /\ cfg.num_kernel[3] = 2
    /\ modality_specific_emb[3].width = 8
    /\ enc.transformer.modality_compression_layers[3].dim = 8

\* C21: the output of cross-modal fusion is y + FF(y) with
\* y = x + Attention(q_i, K_pool, V_pool): after the concatenations the
\* layer applies the attention, adds its result to x, applies the
\* feed-forward refinement and adds the refinement's input to its output.
C21_ResidualAroundFeedForward ==
    new_channels_output # <<>> =>
        LastCross.via = <<"cat_k", "cat_v", "sa", "residual", "ffwd", "residual">>

\* C22: the key pool and the value pool of a cross-modal fusion are
\* gathered in the same order, the ascending index of the other modalities
\* and, within a modality, of its tokens: position p of both pools comes
\* from the same modality and the same token.
C22_PoolsAligned ==
    new_channels_output # <<>> =>
        /\ Len(k_agg) = Len(v_agg)
        /\ \A p \in 1..Len(k_agg) :
             /\ k_agg[p].part = "k" /\ v_agg[p].part = "v"
             /\ k_agg[p].mod = v_agg[p].mod
             /\ k_agg[p].tok = v_agg[p].tok
        /\ \A p, q \in 1..Len(k_agg) :
             p < q =>
                 \/ k_agg[p].mod < k_agg[q].mod
                 \/ k_agg[p].mod = k_agg[q].mod /\ k_agg[p].tok < k_agg[q].tok

C22_Witness ==
    /\ new_channels_output # <<>> /\ M = 3 /\ LastCross.mod = 2
    /\ cfg.num_kernel = <<2, 1, 1>>
    /\ [p \in 1..Len(k_agg) |-> <<k_agg[p].mod, k_agg[p].tok>>]
           = << <<1, 1>>, <<1, 2>>, <<3, 1>> >>
    /\ [p \in 1..Len(v_agg) |-> <<v_agg[p].mod, v_agg[p].tok>>]
           = << <<1, 1>>, <<1, 2>>, <<3, 1>> >>

\* C23: at every level the dense feature and the fine branch are computed
\* from x itself (the front end's output at the first level, the previous
\* level's cross-modal fusion output after), never from the pooled sequence:
\* the level output is FF(Attn(pool(x)) + pool(x)) + cnn(x) and the dense
\* feature is get_info(cnn(x)).
LevelInput == Op(IF lvl = 1 THEN "enc" ELSE "x", <<>>)

C23_FineBranchFromUnpooled ==
    \A i \in 1..Len(channels_output) :
        channels_output[i].kind = "tuple" =>
            LET x    == LevelInput
                pool == Op("pool", <<x>>)
                attn == Op("attn", <<pool, pool, pool>>)
                cnn  == Op("cnn", <<x>>)
            IN  /\ channels_output[i].level = lvl
                /\ channels_output[i].via.x
                       = Op("add", <<Op("ff", <<Op("add", <<attn, pool>>)>>), cnn>>)
                /\ channels_output[i].via.x_info = Op("get_info", <<cnn>>)

C23_Witness ==
    /\ pc = "cross" /\ lvl = 2 /\ M = 2
    /\ channels_output[1].kind = "tuple" /\ channels_output[2].kind = "tuple"
    /\ channels_output[2].via.x_info
           = Op("get_info", <<Op("cnn", <<Op("x", <<>>)>>)>>)

\* C24 (as stated): every attention of the encoder, the level's
\* self-attention and the attention of cross-modal fusion alike, has a
\* learned output projection exactly when heads > 1 or dim_head differs from
\* its input dimension, and otherwise the identity with no parameters.
Attentions ==
    { enc.transformer.layers[l][k].attn :
        l \in 1..Len(enc.transformer.layers), k \in 1..M }
    \cup { enc.transformer.layers[l][k].sa :
        l \in 1..Len(enc.transformer.layers), k \in 1..M }

OutputParams(a) ==
    a.params - (IF a.create_heads THEN 3 * a.q_dim * a.inner_dim ELSE 0)

ProjectsIffNeeded(a) ==
    IF a.heads > 1 \/ a.dim_head # a.q_dim
    THEN a.to_out = "Linear" /\ OutputParams(a) = a.inner_dim * a.out + a.out
    ELSE a.to_out = "Identity" /\ OutputParams(a) = 0

C24_EveryAttentionProjectsIffNeeded ==
    enc.built => \A a \in Attentions : ProjectsIffNeeded(a)

\* C24 (amended): the level's self-attention, built without an explicit
\* output width, projects its output back to the input dimension exactly
\* when heads > 1 or dim_head differs from the input dimension, and is
\* otherwise the identity with no parameters; the attention of cross-modal
\* fusion is built with an output width and always has a learned projection
\* to it.
C24_SelfAttentionProjectsIffNeeded ==
    enc.built =>
        \A l \in 1..Len(enc.transformer.layers) : \A k \in 1..M :
            LET blk == enc.transformer.layers[l][k]
            IN  /\ ProjectsIffNeeded(blk.attn)
                /\ blk.attn.out = blk.dim
                /\ blk.sa.to_out = "Linear"
                /\ blk.sa.out = blk.dim
                /\ OutputParams(blk.sa) = blk.sa.inner_dim * blk.dim + blk.dim

C24_Witness ==
    /\ enc.built /\ cfg.depth = 1 /\ M = 2
    /\ cfg.heads = 1 /\ cfg.dim_head = 2
    /\ cfg.num_time = <<4, 9>>
    /\ enc.transformer.layers[1][1].attn.to_out = "Identity"
    /\ enc.transformer.layers[1][1].attn.params = 12
    /\ enc.transformer.layers[1][2].attn.to_out = "Linear"
    /\ enc.transformer.layers[1][1].sa.to_out = "Linear"

\* C25: every forward evaluation with valid inputs terminates and returns,
\* and it runs in this order: the front end once per modality 1..M; then for
\* each level 1..D the M Level Fusions followed by the M cross-modal
\* fusions; then the M compressions; then the output head once.
ForwardOrder ==
    ShapeValid =>
        /\ pc = "frontend" =>
             \/ idx < M /\ pc' = "frontend" /\ idx' = idx + 1
             \/ idx = M /\ pc' = "hct" /\ lvl' = 1 /\ idx' = 1
        /\ pc = "hct" =>
             \/ idx < M /\ pc' = "hct" /\ idx' = idx + 1 /\ lvl' = lvl
             \/ idx = M /\ pc' = "cross" /\ idx' = 1 /\ lvl' = lvl
        /\ pc = "cross" =>
             \/ idx < M /\ pc' = "cross" /\ idx' = idx + 1 /\ lvl' = lvl
             \/ idx = M /\ lvl < cfg.depth
                  /\ pc' = "hct" /\ idx' = 1 /\ lvl' = lvl + 1
             \/ idx = M /\ lvl = cfg.depth /\ pc' = "compress" /\ idx' = 1
        /\ pc = "compress" =>
             \/ idx < M /\ pc' = "compress" /\ idx' = idx + 1
                  /\ Len(modality_specific_emb') = idx
             \/ idx = M /\ pc' = "head" /\ Len(modality_specific_emb') = M
        /\ pc = "head" => pc' = "done"
        /\ pc = "done" => FALSE

UnimodalOptionsCalled ==
    /\ Len(parser) = 3 /\ parser[3].title = "model"
    /\ parse_err \notin {"KeyError", "TypeError"}

PassedModality ==
    IF model_args["multimodal"] # 0 THEN None ELSE model_args["modality"]

DefaultOf(actions, dest) ==
    (CHOOSE o \in { actions[j] : j \in 1..Len(actions) } : o.dest = dest).default

C26_ModalityDefaultsOrValueError ==
    UnimodalOptionsCalled =>
        LET md   == PassedModality
            opts == parser[3].actions
        IN  IF md \notin {"eeg", "ppg", "eda", "resp"}
            THEN parse_pc = "raised" /\ parse_err = "ValueError" /\ opts = <<>>
            ELSE /\ parse_err = "none"
                 /\ { "num_chan", "num_time", "num_kernel", "emb_dim" }
                        \subseteq { opts[j].dest : j \in 1..Len(opts) }
                 /\ IF md = "eeg"
                    THEN /\ DefaultOf(opts, "num_chan") = 16
                         /\ DefaultOf(opts, "num_kernel") = 64
                         /\ DefaultOf(opts, "num_time") = 512
                         /\ DefaultOf(opts, "emb_dim") = 256
                    ELSE /\ DefaultOf(opts, "num_chan") = 1
                         /\ DefaultOf(opts, "num_kernel") = 4
                         /\ DefaultOf(opts, "emb_dim") = 16

C26_Witness ==
    /\ UnimodalOptionsCalled /\ parse_pc = "parse_known_args"
    /\ PassedModality = "eeg"
    /\ Len(parser[3].actions) = 11
    /\ DefaultOf(parser[3].actions, "num_time") = 512

\* C27: parse_and_load_from_model returns, for every argument of the 'seed'
\* and 'model' groups, the value saved in args.json when args.json holds
\* one, and otherwise the parsed or default value; arguments of other groups
\* are never overwritten.
InGroups(a, titles) ==
    \E g \in 1..Len(parser) :
        /\ parser[g].title \in titles
        /\ \E j \in 1..Len(parser[g].actions) : parser[g].actions[j].dest = a

C27_SavedValuesWin ==
    parse_pc = "returned" =>
        LET parsed == parse_known_args(parser, argv)
        IN  /\ DOMAIN args = DOMAIN parsed
            /\ \A a \in DOMAIN args :
                 args[a] = IF InGroups(a, {"seed", "model"}) /\ a \in DOMAIN args_json
                           THEN args_json[a]
                           ELSE parsed[a]

C27_Witness ==
    /\ parse_pc = "returned"
    /\ DOMAIN argv = {"seed", "depth"}
    /\ {"seed", "cuda"} \subseteq DOMAIN args_json /\ "depth" \notin DOMAIN args_json
    /\ args["seed"] = 7 /\ args["depth"] = 6 /\ args["cuda"] = 0
    /\ args["out_dim"] = 3 /\ args["heads"] = 16

\* C28: when num_time, num_chan, num_kernel, temporal_kernel, mlp_dim and
\* emb_dim all have length M the encoder holds exactly M front-end encoders,
\* M positional biases, M blocks per level and M compressors, component i
\* built from entry i of every list; when the lists differ in length,
\* construction fails and no encoder with fewer components is produced.
ListLengths == { Len(cfg[f]) : f \in ListNames }

C28_OneComponentPerModality ==
    IF Cardinality(ListLengths) = 1
    THEN enc.built =>
            /\ Len(enc.cnn_encoders) = M
            /\ Len(enc.pos_embeddings) = M
            /\ Len(enc.transformer.modality_compression_layers) = M
            /\ \A l \in 1..Len(enc.transformer.layers) :
                   Len(enc.transformer.layers[l]) = M
            /\ \A i \in 1..M :
                 /\ enc.cnn_encoders[i]
                        = cnn_block(cfg.num_kernel[i], cfg.temporal_kernel[i],
                                    cfg.num_chan[i])
                 /\ enc.pos_embeddings[i] = <<1, cfg.num_kernel[i], cfg.num_time[i]>>
                 /\ enc.transformer.modality_compression_layers[i].out = cfg.emb_dim[i]
                 /\ \A l \in 1..Len(enc.transformer.layers) :
                      /\ enc.transformer.layers[l][i].in_chan = cfg.num_kernel[i]
                      /\ enc.transformer.layers[l][i].kernel = cfg.temporal_kernel[i]
                      /\ enc.transformer.layers[l][i].mlp_dim = cfg.mlp_dim[i]
    ELSE ~enc.built

\* C29: with a single modality the pool of the cross-modal fusion is empty
\* and forward cannot complete the first level; with two or more modalities
\* the pool is non-empty for every modality at every level.
C29_PoolNeedsTwoModalities ==
    /\ M = 1 =>
         /\ new_channels_output = <<>>
         /\ pc \notin {"compress", "head", "done"}
         /\ lvl <= 1
         /\ pc = "cross" => OtherChannels(channels_output, idx) = <<>>
    /\ M >= 2 =>
         /\ pc = "cross" => Len(OtherChannels(channels_output, idx)) = M - 1
         /\ new_channels_output # <<>> => Len(k_agg) >= 1 /\ Len(v_agg) >= 1

C29_Witness ==
    /\ M = 1 /\ pc = "failed" /\ lvl = 1
    /\ err = [phase |-> "forward", at |-> "cat"]
    /\ channels_output[1].kind = "tuple"

\* C30: the cross-validation driver saves the arguments first, trains each
\* fold directory below the data directory exactly once, one subprocess at
\* a time in sequence, and runs best-checkpoint selection and writes
\* cross_validation.json exactly once after the last fold; a failing fold
\* subprocess stops neither the remaining folds nor the selection.
EventsOf(ev) == { j \in 1..Len(events) : events[j].ev = ev }

StartsOf(name) == { j \in EventsOf("start") : events[j].fold = name }

C30_FoldsOnceThenSelection ==
    /\ Cardinality(running) <= 1
    /\ drv_err # "CalledProcessError"
    /\ events # <<>> => events[1].ev = "save_args"
    /\ Cardinality(EventsOf("save_args")) <= 1
    /\ \A j \in EventsOf("start") :
         /\ \E e \in 1..Len(data_dir) :
                data_dir[e].isdir /\ data_dir[e].name = events[j].fold
         /\ Cardinality(StartsOf(events[j].fold)) = 1
         /\ j < Len(events) =>
                events[j + 1].ev = "exit" /\ events[j + 1].fold = events[j].fold
    /\ \A j \in EventsOf("cross_validate") \cup EventsOf("write") :
         \A e \in 1..Len(data_dir) :
             data_dir[e].isdir =>
                 \E i \in 1..(j - 1) :
                     events[i].ev = "exit" /\ events[i].fold = data_dir[e].name
    /\ drv_pc = "done" =>
         /\ Cardinality(EventsOf("cross_validate")) = 1
         /\ Cardinality(EventsOf("write")) = 1
         /\ events[Len(events) - 1].ev = "cross_validate"
         /\ events[Len(events)].ev = "write"
         /\ \A e \in 1..Len(data_dir) :
                Cardinality(StartsOf(data_dir[e].name))
                    = (IF data_dir[e].isdir THEN 1 ELSE 0)
    /\ (drv_pc \in {"loop", "wait", "write"}) => drv_err = "none"

C30_Witness ==
    /\ drv_pc = "done" /\ Len(folds) = MaxFolds /\ Len(data_dir) = MaxFolds + 1
    /\ \E j \in EventsOf("exit") :
         /\ events[j].code = 1 /\ events[j].fold = folds[1]
    /\ \E j \in EventsOf("exit") :
         /\ events[j].code = 0 /\ events[j].fold = folds[MaxFolds]
    /\ events[Len(events)].keys = [ n \in 1..MaxFolds |-> Str(n) ]

====
